---- MODULE Spec2Model ----
(***************************************************************************)
(* A model of deepdiff/diff.py: the recursive comparison engine DeepDiff.  *)
(*                                                                         *)
(* Python objects live in a heap: a container is a heap cell with an       *)
(* identity (its index), a scalar is an immediate value.  Every method of  *)
(* the class is an operator of the same name.  The methods mutate the      *)
(* instance (self.tree), the shared statistics and the shared distance     *)
(* cache; the operators thread that mutable state through a context        *)
(* record c and return the context after the call.  The context also keeps *)
(* a log of what the run did, in order, so that statements about "from     *)
(* that point on" are statements about positions of the log.               *)
(***************************************************************************)
EXTENDS Integers, Sequences, FiniteSets, TLC

VARIABLES
    heap,       \* the Python objects the two inputs are made of
    t1,         \* first argument of DeepDiff(t1, t2, ...)
    t2,         \* second argument
    opts,       \* the keyword arguments of the successive calls the caller makes
    run,        \* the number of the call in progress
    phase,      \* where the call DeepDiff(...) stands
    ctx,        \* the instance under construction and the shared state of its run
    instances,  \* the DeepDiff objects the finished calls left to the caller
    caller      \* what the caller read from them with get_stats()

vars == <<heap, t1, t2, opts, run, phase, ctx, instances, caller>>

(***************************************************************************)
(* Bounds of the model.                                                    *)
(***************************************************************************)
\* Python's recursion limit, scaled down: deeper call chains raise RecursionError.
RecursionLimit == 5
\* The most custom operators of a call.
MaxOperators == 2

(***************************************************************************)
(* A local name: Let(value, LAMBDA name : body) is the body with the name  *)
(* bound to the value, as an assignment to a local variable in the source. *)
(***************************************************************************)
Let(value, body(_)) == body(value)

(***************************************************************************)
(* Values.  A scalar is [k |-> its type name, v |-> a number]; strings are *)
(* numbered.  A container is a reference into the heap.                    *)
(***************************************************************************)
IntV(n) == [k |-> "int", v |-> n]
FloatV(n) == [k |-> "float", v |-> n]
BoolV(n) == [k |-> "bool", v |-> n]
StrV(n) == [k |-> "str", v |-> n]
\* A byte string that does not decode as text.
BytesV(n) == [k |-> "bytes", v |-> n]
NoneV == [k |-> "NoneType", v |-> 0]
Ref(i) == [k |-> "ref", v |-> i]
notpresent == [k |-> "notpresent", v |-> 0]
ListItemRemovedOrAdded == [k |-> "ListItemRemovedOrAdded", v |-> 0]
\* The string whose text starts with two underscores ('__secret').
PrivateStr == StrV(9)

IsRef(x) == x.k = "ref"
Obj(x) == heap[x.v]
Cell(type, items) == [type |-> type, items |-> items]
Item(key, val) == [key |-> key, val |-> val]
\* Cells of a list or tuple: the key of an item is its index.
Elems(vals) == [i \in 1..Len(vals) |-> Item(IntV(i - 1), vals[i])]

\* How deep the content of a heap value can nest.
HeapDepth == Cardinality(DOMAIN heap)

get_type(x) == IF IsRef(x) THEN Obj(x).type ELSE x.k

\* id(x): two names of one container have one id; equal small scalars are one object.
id(x) == x

add_to_frozen_set(parents_ids, item_id) == parents_ids \cup {item_id}

Range(s) == {s[i] : i \in DOMAIN s}

RECURSIVE SeqOfSet(_)
SeqOfSet(S) ==
    IF S = {} THEN <<>>
    ELSE LET x == CHOOSE y \in S : TRUE IN <<x>> \o SeqOfSet(S \ {x})

t_vals(x) == [i \in DOMAIN Obj(x).items |-> Obj(x).items[i].val]
t_keys(x) == [i \in DOMAIN Obj(x).items |-> Obj(x).items[i].key]
\* t[key] of a mapping
GetItem(x, key) ==
    LET i == CHOOSE j \in DOMAIN Obj(x).items : Obj(x).items[j].key = key
    IN Obj(x).items[i].val

(***************************************************************************)
(* Python's == on the modelled values (used by difflib and by the moved    *)
(* test).  Numbers compare by value across int, float and bool;            *)
(* containers compare by type and content.                                 *)
(***************************************************************************)
IsNumeric(x) == x.k \in {"int", "float", "bool"}

\* The first answer of a sequence of answers that is not "True", "True" if there is none.
FirstNotTrue(answers) ==
    IF \A n \in DOMAIN answers : answers[n] = "True" THEN "True"
    ELSE answers[CHOOSE n \in DOMAIN answers :
                    /\ answers[n] # "True"
                    /\ \A m \in 1..(n - 1) : answers[m] = "True"]

\* x == y: "True", "False", or "RecursionError" when the comparison comes back to a pair
\* of containers it is in the middle of comparing (seen) and so recurses for ever.
RECURSIVE PyCompare(_, _, _)
PyCompare(x, y, seen) ==
    IF IsNumeric(x) /\ IsNumeric(y) THEN (IF x.v = y.v THEN "True" ELSE "False")
    ELSE IF ~IsRef(x) \/ ~IsRef(y) THEN (IF x = y THEN "True" ELSE "False")
    ELSE IF x = y THEN "True"
    ELSE IF <<x, y>> \in seen THEN "RecursionError"
    ELSE LET a == Obj(x)
             b == Obj(y)
             deeper == seen \cup {<<x, y>>}
         IN IF a.type # b.type \/ a.type = "opaque" \/ Len(a.items) # Len(b.items)
            THEN "False"
            ELSE IF a.type \in {"list", "tuple"}
            THEN FirstNotTrue([i \in DOMAIN a.items |->
                                PyCompare(a.items[i].val, b.items[i].val, deeper)])
            ELSE IF a.type = "set"
            THEN IF {a.items[i].val : i \in DOMAIN a.items}
                        = {b.items[i].val : i \in DOMAIN b.items}
                 THEN "True" ELSE "False"
            ELSE IF Range(t_keys(x)) # Range(t_keys(y)) THEN "False"
            ELSE FirstNotTrue([i \in DOMAIN a.items |->
                                PyCompare(a.items[i].val, GetItem(y, a.items[i].key), deeper)])

PyEq(x, y) == PyCompare(x, y, {}) = "True"

(***************************************************************************)
(* The hashing collaborator, DeepHash.  It is not part of diff.py; the     *)
(* engine only relies on it giving equal keys to values that are equal by  *)
(* content and different keys to values that are not.  The key of a value  *)
(* is the first value of the heap with the same content: a scalar is its   *)
(* own key (its type is part of it), a container's key is the oldest       *)
(* container with the same type and the same content.  An iterable's       *)
(* content does not depend on the order of its items; how often an item    *)
(* occurs counts only when ignore_repetition is off.                       *)
(***************************************************************************)
\* The pairs of R whose two containers have the same content, if the pairs of R do.
ContentStep(R, ignore_repetition) ==
    { p \in R :
        LET a == heap[p[1]]
            b == heap[p[2]]
            Same(u, v) == IF IsRef(u) /\ IsRef(v) THEN <<u.v, v.v>> \in R ELSE u = v
            Times(items, u) == Cardinality({i \in DOMAIN items : Same(items[i].val, u)})
        IN IF a.type \in {"dict", "object"}
           THEN /\ Range(t_keys(Ref(p[1]))) = Range(t_keys(Ref(p[2])))
                /\ \A key \in Range(t_keys(Ref(p[1]))) :
                        Same(GetItem(Ref(p[1]), key), GetItem(Ref(p[2]), key))
           ELSE /\ \A i \in DOMAIN a.items : \E j \in DOMAIN b.items :
                        Same(a.items[i].val, b.items[j].val)
                /\ \A j \in DOMAIN b.items : \E i \in DOMAIN a.items :
                        Same(a.items[i].val, b.items[j].val)
                /\ ignore_repetition \/ \A i \in DOMAIN a.items :
                        Times(a.items, a.items[i].val) = Times(b.items, a.items[i].val) }

\* The largest relation between containers of one type in which related containers have
\* related content (so that cyclic values have a content too).
RECURSIVE ContentRelation(_, _)
ContentRelation(R, ignore_repetition) ==
    IF ContentStep(R, ignore_repetition) = R THEN R
    ELSE ContentRelation(ContentStep(R, ignore_repetition), ignore_repetition)

SameContent(ignore_repetition) ==
    ContentRelation({p \in (DOMAIN heap) \X (DOMAIN heap) :
                        \/ p[1] = p[2]
                        \/ heap[p[1]].type = heap[p[2]].type /\ heap[p[1]].type # "opaque"},
                    ignore_repetition)

DeepHash(x, o) ==
    IF ~IsRef(x) THEN x
    ELSE Let(SameContent(~o.report_repetition), LAMBDA same :
            Ref(CHOOSE i \in DOMAIN heap :
                    /\ <<x.v, i>> \in same
                    /\ \A j \in DOMAIN heap : <<x.v, j>> \in same => i <= j))

\* The order of two hash keys (the engine compares the hex digests as strings).
KindRank(kind) ==
    CASE kind = "NoneType" -> 0 [] kind = "bool" -> 1 [] kind = "int" -> 2
      [] kind = "float" -> 3 [] kind = "str" -> 4 [] OTHER -> 5
HashGreater(h1, h2) ==
    \/ KindRank(h1.k) > KindRank(h2.k)
    \/ KindRank(h1.k) = KindRank(h2.k) /\ h1.v > h2.v

(***************************************************************************)
(* The options of a call and the state of a run.                           *)
(***************************************************************************)
\* 0.3, in thousandths
CUTOFF_DISTANCE_FOR_PAIRS_DEFAULT == 300
\* 0.7, in thousandths
CUTOFF_INTERSECTION_FOR_PAIRS_DEFAULT == 700
\* CACHE_AUTO_ADJUST_THRESHOLD = 0.25 = 1 / CacheThresholdInverse
MAX_PASSES_DEFAULT == 10000000
CacheThresholdInverse == 4

DefaultOptions ==
    [ cache_purge_level |-> 1,
      cache_size |-> 0,
      cache_tuning_sample_size |-> 0,
      custom_operators |-> <<>>,
      cutoff_distance_for_pairs |-> CUTOFF_DISTANCE_FOR_PAIRS_DEFAULT,
      cutoff_intersection_for_pairs |-> CUTOFF_INTERSECTION_FOR_PAIRS_DEFAULT,
      exclude_paths |-> {},
      include_paths |-> {},
      exclude_types |-> {},
      ignore_order |-> FALSE,
      ignore_private_variables |-> TRUE,
      ignore_type_in_groups |-> {},
      iterable_compare_func |-> "None",
      zip_ordered_iterables |-> FALSE,
      max_diffs |-> <<>>,
      max_passes |-> MAX_PASSES_DEFAULT,
      report_repetition |-> FALSE,
      verbose_level |-> 1,
      kwargs |-> {} ]

\* Stats whose previous sample is taken to be at the first multiple of the stride.
NewStatsSampled(o) ==
    [ PASSES_COUNT |-> 0,
      DIFF_COUNT |-> 0,
      DISTANCE_CACHE_HIT_COUNT |-> 0,
      PREVIOUS_DIFF_COUNT |-> o.cache_tuning_sample_size,
      PREVIOUS_DISTANCE_CACHE_HIT_COUNT |-> 0,
      MAX_PASS_LIMIT_REACHED |-> FALSE,
      MAX_DIFF_LIMIT_REACHED |-> FALSE,
      DISTANCE_CACHE_ENABLED |-> o.cache_size # 0 ]

\* self._stats of the root instance (DeepDiff.__init__)
NewStats(o) ==
    [ PASSES_COUNT |-> 0,
      DIFF_COUNT |-> 0,
      DISTANCE_CACHE_HIT_COUNT |-> 0,
      PREVIOUS_DIFF_COUNT |-> 0,
      PREVIOUS_DISTANCE_CACHE_HIT_COUNT |-> 0,
      MAX_PASS_LIMIT_REACHED |-> FALSE,
      MAX_DIFF_LIMIT_REACHED |-> FALSE,
      DISTANCE_CACHE_ENABLED |-> o.cache_size # 0 ]

Event(ev, n) == [ev |-> ev, n |-> n]

\* The state a root instance starts with: the shared parameters and an empty tree.
NewContext(o) ==
    [ stats |-> NewStats(o),
      enable_cache_every_x_diff |-> o.cache_tuning_sample_size * 10,
      distance_cache |-> <<>>,
      hashes |-> {},
      tree |-> <<>>,
      local_tree |-> <<>>,
      iterable_opcodes |-> {},
      visited |-> <<>>,
      pairings |-> <<>>,
      log |-> <<>>,
      error |-> "",
      depth |-> 0 ]

Logged(c, ev, n) == [c EXCEPT !.log = Append(@, Event(ev, n))]
\* The history of the pairing tables: the table one call of
\* _get_most_in_common_pairs_in_iterables returned, with its arguments, the candidates it
\* was built from, whether it came from the cache, and the depth of the calls of _diff it
\* was called at (1 for the two objects of the call).
Pairing(hashes_added, hashes_removed, found, pairs, hit) ==
    [hashes_added |-> hashes_added, hashes_removed |-> hashes_removed,
     found |-> found, pairs |-> pairs, hit |-> hit]
Paired(c, pairing) ==
    [c EXCEPT !.pairings =
        Append(@, [hashes_added |-> pairing.hashes_added,
                   hashes_removed |-> pairing.hashes_removed,
                   found |-> pairing.found, pairs |-> pairing.pairs, hit |-> pairing.hit,
                   depth |-> c.depth])]
Raise(c, what) == IF c.error = "" THEN [c EXCEPT !.error = what] ELSE c

(***************************************************************************)
(* DiffLevel: the pair under comparison and its path from the root.        *)
(***************************************************************************)
PathElem(rel, param, param2) == [rel |-> rel, param |-> param, param2 |-> param2]
RootLevel(a, b) == [t1 |-> a, t2 |-> b, path |-> <<>>]
branch_deeper(level, new_t1, new_t2, rel, param) ==
    [t1 |-> new_t1, t2 |-> new_t2,
     path |-> Append(level.path, PathElem(rel, param, NoneV))]
branch_deeper2(level, new_t1, new_t2, rel, param, param2) ==
    [t1 |-> new_t1, t2 |-> new_t2,
     path |-> Append(level.path, PathElem(rel, param, param2))]

IsPrefix(p, q) == Len(p) <= Len(q) /\ SubSeq(q, 1, Len(p)) = p

NoRepetition == [old_repeat |-> 0, new_repeat |-> 0, old_indexes |-> <<>>, new_indexes |-> <<>>]
\* One change record of a TreeResult; at is the position of the log it was reported at.
Change(report_type, level, additional, at) ==
    [report_type |-> report_type, path |-> level.path, t1 |-> level.t1, t2 |-> level.t2,
     additional |-> additional, at |-> at]

(***************************************************************************)
(* _skip_this: the exclusion and inclusion filters.                        *)
(***************************************************************************)
isinstance_of(x, types) == get_type(x) \in types

_skip_this(o, level) ==
    LET level_path == level.path
        skip0 == o.exclude_paths # {} /\ level_path \in o.exclude_paths
    IN IF o.include_paths # {} /\ level_path # <<>>
       THEN IF level_path \notin o.include_paths
            THEN ~ \E prefix \in o.include_paths :
                       IsPrefix(prefix, level_path) \/ IsPrefix(level_path, prefix)
            ELSE skip0
       ELSE IF o.exclude_types # {}
                 /\ (isinstance_of(level.t1, o.exclude_types)
                     \/ isinstance_of(level.t2, o.exclude_types))
       THEN TRUE
       ELSE skip0

_report_result(o, c, report_type, level, additional, to_local) ==
    IF _skip_this(o, level) THEN c
    ELSE LET rec == Change(report_type, level, additional, Len(c.log) + 1)
             c1 == Logged(c, "report", 0)
         IN IF to_local
            THEN [c1 EXCEPT !.local_tree = Append(@, rec)]
            ELSE [c1 EXCEPT !.tree = Append(@, rec)]

(***************************************************************************)
(* _count_diff and the cache auto-tuner.                                   *)
(***************************************************************************)
\* A tuner that evaluates the slope and leaves the cache as it is.
_auto_off_cache_never(o, c) ==
    IF c.stats.DISTANCE_CACHE_ENABLED
    THEN LET diffs == c.stats.DIFF_COUNT - c.stats.PREVIOUS_DIFF_COUNT
         IN IF diffs = 0 THEN Raise(Logged(c, "slope", diffs), "ZeroDivisionError")
            ELSE Logged(c, "slope", diffs)
    ELSE c

_auto_off_cache(o, c) ==
    IF c.stats.DISTANCE_CACHE_ENABLED
    THEN LET hits == c.stats.DISTANCE_CACHE_HIT_COUNT - c.stats.PREVIOUS_DISTANCE_CACHE_HIT_COUNT
             diffs == c.stats.DIFF_COUNT - c.stats.PREVIOUS_DIFF_COUNT
             c1 == Logged(c, "slope", diffs)
         IN IF diffs = 0 THEN Raise(c1, "ZeroDivisionError")
            ELSE IF hits * CacheThresholdInverse < diffs
            THEN Logged([c1 EXCEPT !.stats.DISTANCE_CACHE_ENABLED = FALSE], "cache_off", c.stats.DIFF_COUNT)
            ELSE c1
    ELSE c

\* A tuner that re-enables the cache at every multiple of the first interval.
_auto_tune_cache_fixed_interval(o, c) ==
    LET take_sample == c.stats.DIFF_COUNT % o.cache_tuning_sample_size = 0
        c1 == IF c.stats.DISTANCE_CACHE_ENABLED
              THEN IF take_sample THEN _auto_off_cache(o, c) ELSE c
              ELSE IF c.stats.DIFF_COUNT % c.enable_cache_every_x_diff = 0
              THEN Logged([c EXCEPT !.stats.DISTANCE_CACHE_ENABLED = TRUE],
                          "cache_on", c.stats.DIFF_COUNT)
              ELSE c
    IN IF c1.error # "" THEN c1
       ELSE IF take_sample
       THEN [c1 EXCEPT !.stats.PREVIOUS_DIFF_COUNT = c1.stats.DIFF_COUNT,
                       !.stats.PREVIOUS_DISTANCE_CACHE_HIT_COUNT = c1.stats.DISTANCE_CACHE_HIT_COUNT]
       ELSE c1

_auto_tune_cache(o, c) ==
    LET take_sample == c.stats.DIFF_COUNT % o.cache_tuning_sample_size = 0
        c1 == IF o.cache_tuning_sample_size # 0
              THEN IF c.stats.DISTANCE_CACHE_ENABLED
                   THEN IF take_sample THEN _auto_off_cache(o, c) ELSE c
                   ELSE IF c.stats.DIFF_COUNT % c.enable_cache_every_x_diff = 0
                   THEN Logged([c EXCEPT !.enable_cache_every_x_diff = @ * 10,
                                         !.stats.DISTANCE_CACHE_ENABLED = TRUE],
                               "cache_on", c.stats.DIFF_COUNT)
                   ELSE c
              ELSE c
    IN IF c1.error # "" THEN c1
       ELSE IF take_sample
       THEN [c1 EXCEPT !.stats.PREVIOUS_DIFF_COUNT = c1.stats.DIFF_COUNT,
                       !.stats.PREVIOUS_DISTANCE_CACHE_HIT_COUNT = c1.stats.DISTANCE_CACHE_HIT_COUNT]
       ELSE c1

\* The result of _count_diff: the state after it and whether it returned StopIteration.
_count_diff(o, c) ==
    IF o.max_diffs # <<>> /\ c.stats.DIFF_COUNT > o.max_diffs[1]
    THEN [stop |-> TRUE,
          c |-> IF ~c.stats.MAX_DIFF_LIMIT_REACHED
                THEN Logged([c EXCEPT !.stats.MAX_DIFF_LIMIT_REACHED = TRUE],
                            "MAX_DIFFS_REACHED_MSG", c.stats.DIFF_COUNT)
                ELSE Logged(c, "StopIteration", c.stats.DIFF_COUNT)]
    ELSE LET c1 == Logged([c EXCEPT !.stats.DIFF_COUNT = @ + 1], "count", c.stats.DIFF_COUNT + 1)
         IN [stop |-> FALSE,
             c |-> IF o.cache_size # 0 /\ o.cache_tuning_sample_size # 0
                   THEN _auto_tune_cache(o, c1)
                   ELSE c1]

(***************************************************************************)
(* difflib.SequenceMatcher(isjunk=None, a, b, autojunk=False).get_opcodes  *)
(* of the standard library.  Indices are Python's: they start at 0 and a   *)
(* range [from, to) excludes its end.                                      *)
(***************************************************************************)
\* find_longest_match: the longest block a[i:i+k] == b[j:j+k] of the ranges, the one
\* earliest in a, and of those the one earliest in b.
IsBlock(a, b, i, j, k) == \A t \in 0..(k - 1) : PyEq(a[i + t + 1], b[j + t + 1])
Blocks(a, b, alo, ahi, blo, bhi) ==
    { m \in (alo..(ahi - 1)) \X (blo..(bhi - 1)) \X (1..(ahi - alo)) :
        /\ m[1] + m[3] <= ahi
        /\ m[2] + m[3] <= bhi
        /\ IsBlock(a, b, m[1], m[2], m[3]) }
find_longest_match(a, b, alo, ahi, blo, bhi) ==
    LET all == Blocks(a, b, alo, ahi, blo, bhi)
    IN IF all = {} THEN <<alo, blo, 0>>
       ELSE CHOOSE m \in all : \A n \in all :
               \/ m[3] > n[3]
               \/ m[3] = n[3] /\ m[1] < n[1]
               \/ m[3] = n[3] /\ m[1] = n[1] /\ m[2] <= n[2]

RECURSIVE matching_blocks(_, _, _, _, _, _)
matching_blocks(a, b, alo, ahi, blo, bhi) ==
        Let(find_longest_match(a, b, alo, ahi, blo, bhi), LAMBDA m :
    LET
        i == m[1]
        j == m[2]
        k == m[3]
    IN IF k = 0 THEN <<>>
       ELSE (IF alo < i /\ blo < j THEN matching_blocks(a, b, alo, i, blo, j) ELSE <<>>)
            \o <<m>>
            \o (IF i + k < ahi /\ j + k < bhi
                THEN matching_blocks(a, b, i + k, ahi, j + k, bhi) ELSE <<>>))

Opcode(tag, t1_from_index, t1_to_index, t2_from_index, t2_to_index) ==
    [tag |-> tag, t1_from_index |-> t1_from_index, t1_to_index |-> t1_to_index,
     t2_from_index |-> t2_from_index, t2_to_index |-> t2_to_index]

RECURSIVE opcodes_from(_, _, _, _)
opcodes_from(blocks, n, i, j) ==
    IF n > Len(blocks) THEN <<>>
    ELSE LET ai == blocks[n][1]
             bj == blocks[n][2]
             size == blocks[n][3]
             tag == IF i < ai /\ j < bj THEN "replace"
                    ELSE IF i < ai THEN "delete"
                    ELSE IF j < bj THEN "insert"
                    ELSE ""
         IN (IF tag # "" THEN <<Opcode(tag, i, ai, j, bj)>> ELSE <<>>)
            \o (IF size # 0 THEN <<Opcode("equal", ai, ai + size, bj, bj + size)>> ELSE <<>>)
            \o opcodes_from(blocks, n + 1, ai + size, bj + size)

get_opcodes(a, b) ==
    opcodes_from(matching_blocks(a, b, 0, Len(a), 0, Len(b)) \o <<(<<Len(a), Len(b), 0>>)>>,
                 1, 0, 0)

(***************************************************************************)
(* The comparators.  An operator that models a method returns the context  *)
(* after the call.  A loop of a method is an operator over the position in *)
(* the sequence it iterates; it returns the context and whether the method *)
(* has returned from inside the loop.                                      *)
(***************************************************************************)
Loop(c, returned) == [c |-> c, returned |-> returned]
\* `if self._count_diff() is StopIteration: return`; an exception leaves the method too.
Halt(cd) == cd.stop \/ cd.c.error # ""

\* len(tree) of a TreeResult: the number of its change records.
TreeLen(tree) == Len(tree)

RECURSIVE _diff(_, _, _, _, _)
RECURSIVE _diff_iterable_with_deephash(_, _, _, _, _)

\* A custom operator: match accepts the levels whose t1 is of one of the types, and
\* give_up_diffing returns prevent_default.
Operator(match, prevent_default) == [match |-> match, prevent_default |-> prevent_default]

\* The loop goes on to the next operator when one has prevented the default.
RECURSIVE _use_custom_operator_all(_, _, _, _)
_use_custom_operator_all(o, c, level, n) ==
    IF n > Len(o.custom_operators) THEN [c |-> c, prevent_default |-> FALSE]
    ELSE LET operator == o.custom_operators[n]
             matched == Logged(c, "match", n)
         IN IF get_type(level.t1) \in operator.match
            THEN LET rest == _use_custom_operator_all(o, Logged(matched, "give_up_diffing", n),
                                                      level, n + 1)
                 IN [c |-> rest.c,
                     prevent_default |-> operator.prevent_default \/ rest.prevent_default]
            ELSE _use_custom_operator_all(o, matched, level, n + 1)

RECURSIVE _use_custom_operator_from(_, _, _, _)
_use_custom_operator_from(o, c, level, n) ==
    IF n > Len(o.custom_operators) THEN [c |-> c, prevent_default |-> FALSE]
    ELSE LET operator == o.custom_operators[n]
             matched == Logged(c, "match", n)
         IN IF get_type(level.t1) \in operator.match
            THEN LET c1 == Logged(matched, "give_up_diffing", n)
                 IN IF operator.prevent_default
                    THEN [c |-> c1, prevent_default |-> TRUE]
                    ELSE _use_custom_operator_from(o, c1, level, n + 1)
            ELSE _use_custom_operator_from(o, matched, level, n + 1)

_use_custom_operator(o, c, level) == _use_custom_operator_from(o, c, level, 1)

\* A type change that is not reported.
_diff_types_silent(o, c, level, to_local) == c
_diff_types(o, c, level, to_local) ==
    _report_result(o, c, "type_changes", level, NoRepetition, to_local)

_diff_booleans(o, c, level, to_local) ==
    IF level.t1 # level.t2
    THEN _report_result(o, c, "values_changed", level, NoRepetition, to_local)
    ELSE c

_diff_str(o, c, level, to_local) ==
    IF get_type(level.t1) = get_type(level.t2) /\ level.t1 = level.t2 THEN c
    ELSE IF level.t1.v = level.t2.v THEN c
    ELSE _report_result(o, c, "values_changed", level, NoRepetition, to_local)

_diff_numbers(o, c, level, to_local) ==
    IF level.t1.v # level.t2.v
    THEN _report_result(o, c, "values_changed", level, NoRepetition, to_local)
    ELSE c

(***************************************************************************)
(* _diff_dict, for mappings and (print_as_attribute) for the field mapping *)
(* of an object.                                                           *)
(***************************************************************************)
IsPrivateKey(key) == key = PrivateStr

\* The keys of a mapping in their order, without the private ones if asked.
KeysOf(o, x) ==
    LET keys == t_keys(x)
    IN IF o.ignore_private_variables
       THEN SelectSeq(keys, LAMBDA key : ~IsPrivateKey(key))
       ELSE keys

DictRelationship(print_as_attribute) == IF print_as_attribute THEN "Attribute" ELSE "Dict"

RECURSIVE _diff_dict_added(_, _, _, _, _, _, _)
_diff_dict_added(o, c, level, keys, n, print_as_attribute, to_local) ==
    IF n > Len(keys) THEN Loop(c, FALSE)
    ELSE Let(_count_diff(o, c), LAMBDA cd :
            IF Halt(cd) THEN Loop(cd.c, TRUE)
            ELSE LET key == keys[n]
                     change_level == branch_deeper(level, notpresent, GetItem(level.t2, key),
                                                   DictRelationship(print_as_attribute), key)
                     report_type == IF print_as_attribute THEN "attribute_added"
                                    ELSE "dictionary_item_added"
                 IN _diff_dict_added(o, _report_result(o, cd.c, report_type, change_level,
                                                       NoRepetition, to_local),
                                     level, keys, n + 1, print_as_attribute, to_local))

\* A loop over the removed keys that reports none of them.
_diff_dict_removed_silent(o, c, level, keys, n, print_as_attribute, to_local) == Loop(c, FALSE)

RECURSIVE _diff_dict_removed(_, _, _, _, _, _, _)
_diff_dict_removed(o, c, level, keys, n, print_as_attribute, to_local) ==
    IF n > Len(keys) THEN Loop(c, FALSE)
    ELSE Let(_count_diff(o, c), LAMBDA cd :
            IF Halt(cd) THEN Loop(cd.c, TRUE)
            ELSE LET key == keys[n]
                     change_level == branch_deeper(level, GetItem(level.t1, key), notpresent,
                                                   DictRelationship(print_as_attribute), key)
                     report_type == IF print_as_attribute THEN "attribute_removed"
                                    ELSE "dictionary_item_removed"
                 IN _diff_dict_removed(o, _report_result(o, cd.c, report_type, change_level,
                                                         NoRepetition, to_local),
                                       level, keys, n + 1, print_as_attribute, to_local))

\* The cycle guard of the loops that descend: `if parents_ids and item_id in parents_ids`.
\* The cycle guard read as never holding.
NeverOnRecursionStack(parents_ids, item_id) == FALSE
OnRecursionStack(parents_ids, item_id) == parents_ids # {} /\ item_id \in parents_ids

RECURSIVE _diff_dict_intersect(_, _, _, _, _, _, _, _)
_diff_dict_intersect(o, c, level, parents_ids, keys, n, print_as_attribute, to_local) ==
    IF n > Len(keys) THEN Loop(c, FALSE)
    ELSE Let(_count_diff(o, c), LAMBDA cd :
            IF Halt(cd) THEN Loop(cd.c, TRUE)
            ELSE LET key == keys[n]
                     item_id == id(GetItem(level.t1, key))
                     parents_ids_added == add_to_frozen_set(parents_ids, item_id)
                     next_level == branch_deeper(level, GetItem(level.t1, key),
                                                 GetItem(level.t2, key),
                                                 DictRelationship(print_as_attribute), key) IN
                     Let(  IF OnRecursionStack(parents_ids, item_id) THEN cd.c
                           ELSE _diff(o, cd.c, next_level, parents_ids_added, to_local), LAMBDA c1 :
                    _diff_dict_intersect(o, c1, level, parents_ids, keys, n + 1,
                                         print_as_attribute, to_local)))

_diff_dict(o, c, level, parents_ids, print_as_attribute, to_local) ==
    LET t1_keys == KeysOf(o, level.t1)
        t2_keys == KeysOf(o, level.t2)
        t_keys_intersect == SelectSeq(t2_keys, LAMBDA key : key \in Range(t1_keys))
        t_keys_added == SelectSeq(t2_keys, LAMBDA key : key \notin Range(t_keys_intersect))
        t_keys_removed == SelectSeq(t1_keys, LAMBDA key : key \notin Range(t_keys_intersect)) IN
        Let(_diff_dict_added(o, c, level, t_keys_added, 1, print_as_attribute, to_local), LAMBDA added :
        Let(       _diff_dict_removed(o, added.c, level, t_keys_removed, 1,
                                      print_as_attribute, to_local), LAMBDA removed :
       IF added.returned THEN added.c
       ELSE IF removed.returned THEN removed.c
       ELSE _diff_dict_intersect(o, removed.c, level, parents_ids, t_keys_intersect, 1,
                                 print_as_attribute, to_local).c))

\* Field extraction fails for an opaque object (AttributeError).
\* The fields are compared without a test of whether they could be read.
_diff_obj_unchecked(o, c, level, parents_ids, to_local) ==
    IF ~IsRef(level.t1) \/ ~IsRef(level.t2) THEN c
    ELSE _diff_dict(o, c, level, parents_ids, TRUE, to_local)

_diff_obj(o, c, level, parents_ids, to_local) ==
    LET processing_error == get_type(level.t1) = "opaque" \/ get_type(level.t2) = "opaque"
    IN IF processing_error
       THEN _report_result(o, c, "unprocessed", level, NoRepetition, to_local)
       \* getmembers of two scalars of one type: the same members with the same values
       ELSE IF ~IsRef(level.t1) \/ ~IsRef(level.t2) THEN c
       ELSE _diff_dict(o, c, level, parents_ids, TRUE, to_local)

(***************************************************************************)
(* _create_hashtable and _diff_set.  A hash table is the sequence of its   *)
(* entries [hash, item, indexes] in the order they were added.             *)
(***************************************************************************)
IndexedHash(hash, indexes, item) == [hash |-> hash, indexes |-> indexes, item |-> item]

_add_hash(hashes, item_hash, item, i) ==
    IF \E n \in DOMAIN hashes : hashes[n].hash = item_hash
    THEN [n \in DOMAIN hashes |->
            IF hashes[n].hash = item_hash
            THEN [hashes[n] EXCEPT !.indexes = Append(@, i)]
            ELSE hashes[n]]
    ELSE Append(hashes, IndexedHash(item_hash, <<i>>, item))

\* How DeepHash fails on an item: "" when it does not.
HashFailure(x) ==
    IF IsRef(x) /\ Obj(x).type = "opaque" THEN "Exception"
    ELSE IF x.k = "bytes" THEN "UnicodeDecodeError"
    ELSE ""

\* The loop of _create_hashtable.  DeepHash is given self.hashes, the table of hashes of
\* the root (line 1032), and leaves the item it hashed in it.
RECURSIVE _create_hashtable_from(_, _, _, _, _)
_create_hashtable_from(o, c, obj, n, local_hashes) ==
    IF n > Len(obj) \/ c.error # "" THEN [c |-> c, hashtable |-> local_hashes]
    ELSE LET item == obj[n]
             failure == HashFailure(item)
         IN IF failure = "UnicodeDecodeError"
            THEN [c |-> Raise(c, "UnicodeDecodeError"), hashtable |-> local_hashes]
            ELSE IF failure # ""
            THEN _create_hashtable_from(o, Logged(c, "Can not produce a hash", n - 1),
                                        obj, n + 1, local_hashes)
            ELSE _create_hashtable_from(o, [c EXCEPT !.hashes = @ \cup {item}], obj, n + 1,
                    _add_hash(local_hashes, DeepHash(item, o), item, n - 1))

_create_hashtable(o, c, level, t) ==
    _create_hashtable_from(o, c, t_vals(IF t = "t1" THEN level.t1 ELSE level.t2), 1, <<>>)

HashKeys(hashtable) == [n \in DOMAIN hashtable |-> hashtable[n].hash]
Lookup(hashtable, hash) ==
    hashtable[CHOOSE n \in DOMAIN hashtable : hashtable[n].hash = hash]

\* A loop over the added items that reports none of them.
_diff_set_added_silent(o, c, level, items_added, n, to_local) == Loop(c, FALSE)

RECURSIVE _diff_set_added(_, _, _, _, _, _)
_diff_set_added(o, c, level, items_added, n, to_local) ==
    IF n > Len(items_added) THEN Loop(c, FALSE)
    ELSE Let(_count_diff(o, c), LAMBDA cd :
            IF Halt(cd) THEN Loop(cd.c, TRUE)
            ELSE LET change_level == branch_deeper(level, notpresent, items_added[n], "Set", NoneV)
                 IN _diff_set_added(o, _report_result(o, cd.c, "set_item_added", change_level,
                                                      NoRepetition, to_local),
                                    level, items_added, n + 1, to_local))

RECURSIVE _diff_set_removed(_, _, _, _, _, _)
_diff_set_removed(o, c, level, items_removed, n, to_local) ==
    IF n > Len(items_removed) THEN Loop(c, FALSE)
    ELSE Let(_count_diff(o, c), LAMBDA cd :
            IF Halt(cd) THEN Loop(cd.c, TRUE)
            ELSE LET change_level == branch_deeper(level, items_removed[n], notpresent, "Set", NoneV)
                 IN _diff_set_removed(o, _report_result(o, cd.c, "set_item_removed", change_level,
                                                        NoRepetition, to_local),
                                      level, items_removed, n + 1, to_local))

_diff_set(o, c, level, to_local) ==
        Let(_create_hashtable(o, c, level, "t1"), LAMBDA h1 :
        Let(_create_hashtable(o, h1.c, level, "t2"), LAMBDA h2 :
    LET
        t1_hashtable == h1.hashtable
        t2_hashtable == h2.hashtable
        t1_hashes == Range(HashKeys(t1_hashtable))
        t2_hashes == Range(HashKeys(t2_hashtable))
        hashes_added == SelectSeq(HashKeys(t2_hashtable), LAMBDA h : h \notin t1_hashes)
        hashes_removed == SelectSeq(HashKeys(t1_hashtable), LAMBDA h : h \notin t2_hashes)
        items_added == [n \in DOMAIN hashes_added |-> Lookup(t2_hashtable, hashes_added[n]).item]
        items_removed == [n \in DOMAIN hashes_removed |-> Lookup(t1_hashtable, hashes_removed[n]).item] IN
        Let(_diff_set_added(o, h2.c, level, items_added, 1, to_local), LAMBDA added :
       IF h2.c.error # "" THEN h2.c
       ELSE IF added.returned THEN added.c
       ELSE _diff_set_removed(o, added.c, level, items_removed, 1, to_local).c)))

(***************************************************************************)
(* Ordered iterables.  A matching pair is [i, j, x, y]: the indices in t1  *)
(* and t2 (-1 for none) and the two items.                                 *)
(***************************************************************************)
Pair(i, j, x, y) == [i |-> i, j |-> j, x |-> x, y |-> y]
Max(a, b) == IF a >= b THEN a ELSE b

\* zip_longest(t1_chunk, t2_chunk, fillvalue=ListItemRemovedOrAdded), enumerated
ZipLongest(xs, ys, i0, j0) ==
    [n \in 1..Max(Len(xs), Len(ys)) |->
        Pair(n - 1 + i0, n - 1 + j0,
             IF n <= Len(xs) THEN xs[n] ELSE ListItemRemovedOrAdded,
             IF n <= Len(ys) THEN ys[n] ELSE ListItemRemovedOrAdded)]

\* A slice t[from:to] of Python.
Slice(s, from, to) ==
    LET hi == IF to > Len(s) THEN Len(s) ELSE to
    IN IF from >= hi THEN <<>> ELSE SubSeq(s, from + 1, hi)

\* The index arguments are -1 when the method is called without them (None).
_compare_in_order(level, t1_from_index, t1_to_index, t2_from_index, t2_to_index) ==
    IF t1_from_index = -1
    THEN ZipLongest(t_vals(level.t1), t_vals(level.t2), 0, 0)
    ELSE ZipLongest(Slice(t_vals(level.t1), t1_from_index, t1_to_index),
                    Slice(t_vals(level.t2), t2_from_index, t2_to_index),
                    t1_from_index, t2_from_index)

\* The iterable_compare_func of the call, by name: what it answers for (x, y).
\*   "equal"  x == y;  "same_type"  the two have one type;  "always"  True;
\*   "cannot" it raises CannotCompare.
iterable_compare_func(o, x, y) ==
    CASE o.iterable_compare_func = "equal" -> PyCompare(x, y, {})
      [] o.iterable_compare_func = "same_type" ->
            IF get_type(x) = get_type(y) THEN "True" ELSE "False"
      [] o.iterable_compare_func = "always" -> "True"
      [] OTHER -> "CannotCompare"

\* The inner loop over t2 for the item x: the first index j, not matched yet, that
\* the function accepts; -1 when there is none, -2 when the function raised
\* CannotCompare, -3 when it raised RecursionError.
\* An inner loop that finds no match.
NoMatch(o, x, ys, j, y_index_matched) == -1

RECURSIVE FirstMatch(_, _, _, _, _)
FirstMatch(o, x, ys, j, y_index_matched) ==
    IF j > Len(ys) - 1 THEN -1
    ELSE IF j \in y_index_matched THEN FirstMatch(o, x, ys, j + 1, y_index_matched)
    ELSE LET answer == iterable_compare_func(o, x, ys[j + 1])
         IN IF answer = "CannotCompare" THEN -2
            ELSE IF answer = "RecursionError" THEN -3
            ELSE IF answer = "True" THEN j
            ELSE FirstMatch(o, x, ys, j + 1, y_index_matched)

\* The loop over t1: the matches so far, the hashes and the indices of t2 matched.
RECURSIVE MatchT1(_, _, _, _, _)
MatchT1(o, xs, ys, i, acc) ==
    IF i > Len(xs) - 1 \/ acc.raised # "" THEN acc
    ELSE LET x == xs[i + 1] IN
             Let(FirstMatch(o, x, ys, 0, acc.y_index_matched), LAMBDA j :
            MatchT1(o, xs, ys, i + 1,
               IF j = -2 THEN [acc EXCEPT !.raised = "CannotCompare"]
               ELSE IF j = -3 THEN [acc EXCEPT !.raised = "RecursionError"]
               ELSE IF j = -1
               THEN [acc EXCEPT !.matches = Append(@, Pair(i, -1, x, ListItemRemovedOrAdded))]
               ELSE [acc EXCEPT !.matches = Append(@, Pair(i, j, x, ys[j + 1])),
                                !.y_index_matched = @ \cup {j},
                                !.y_matched = @ \cup {DeepHash(ys[j + 1], o)}]))

\* The loops of _get_matching_pairs over t1 and, inside, over t2.
Matched(o, level) ==
    MatchT1(o, t_vals(level.t1), t_vals(level.t2), 0,
            [matches |-> <<>>, y_matched |-> {}, y_index_matched |-> {}, raised |-> ""])

\* The exception that leaves _get_matching_pairs, "" when it returns.
_get_matching_pairs_raises(o, level) ==
    IF o.iterable_compare_func # "None" /\ Matched(o, level).raised = "RecursionError"
    THEN "RecursionError" ELSE ""

_get_matching_pairs(o, level, t1_from_index, t1_to_index, t2_from_index, t2_to_index) ==
    IF o.iterable_compare_func = "None"
    THEN _compare_in_order(level, t1_from_index, t1_to_index, t2_from_index, t2_to_index)
    ELSE LET ys == t_vals(level.t2) IN
             Let(Matched(o, level), LAMBDA matched :
             Let(         SelectSeq([j \in 1..Len(ys) |-> j - 1],
                                    LAMBDA j : DeepHash(ys[j + 1], o) \notin matched.y_matched), LAMBDA unmatched :
            IF matched.raised # ""
            THEN _compare_in_order(level, t1_from_index, t1_to_index, t2_from_index, t2_to_index)
            ELSE matched.matches
                 \o [n \in DOMAIN unmatched |->
                        Pair(-1, unmatched[n], ListItemRemovedOrAdded, ys[unmatched[n] + 1])]))

_iterables_subscriptable(a, b) ==
    get_type(a) \in {"list", "tuple", "dict"} /\ get_type(b) \in {"list", "tuple", "dict"}

IsSequence(x) == get_type(x) \in {"list", "tuple"}

_all_values_basic_hashable(iterable) ==
    \A n \in DOMAIN t_vals(iterable) : ~IsRef(t_vals(iterable)[n])

RECURSIVE _diff_by_forming_pairs_loop(_, _, _, _, _, _, _, _)
_diff_by_forming_pairs_loop(o, c, level, to_local, parents_ids, rel, pairs, n) ==
    IF n > Len(pairs) \/ c.error # "" THEN c
    ELSE Let(_count_diff(o, c), LAMBDA cd :
         LET
             i == pairs[n].i
             j == pairs[n].j
             x == pairs[n].x
             y == pairs[n].y
             item_id == id(x)
             parents_ids_added == add_to_frozen_set(parents_ids, item_id)
             equal == IF x = ListItemRemovedOrAdded \/ y = ListItemRemovedOrAdded \/ i = j
                      THEN "False" ELSE PyCompare(x, y, {}) IN
             Let(  IF y = ListItemRemovedOrAdded
                   THEN _report_result(o, cd.c, "iterable_item_removed",
                                       branch_deeper(level, x, notpresent, rel, IntV(i)),
                                       NoRepetition, to_local)
                   ELSE IF x = ListItemRemovedOrAdded
                   THEN _report_result(o, cd.c, "iterable_item_added",
                                       branch_deeper(level, notpresent, y, rel, IntV(j)),
                                       NoRepetition, to_local)
                   ELSE IF equal = "RecursionError" THEN Raise(cd.c, "RecursionError")
                   ELSE IF i # j /\ (equal = "True" \/ o.iterable_compare_func # "None")
                   THEN _report_result(o, cd.c, "iterable_item_moved",
                                       branch_deeper2(level, x, y, rel, IntV(i), IntV(j)),
                                       NoRepetition, to_local)
                   ELSE IF OnRecursionStack(parents_ids, item_id) THEN cd.c
                   ELSE _diff(o, cd.c, branch_deeper(level, x, y, rel, IntV(i)),
                              parents_ids_added, to_local), LAMBDA c1 :
            IF Halt(cd) THEN cd.c
            ELSE _diff_by_forming_pairs_loop(o, c1, level, to_local, parents_ids, rel, pairs, n + 1)))

\* The four index arguments travel as the sequence idx (<<-1, -1, -1, -1>> for None).
_diff_by_forming_pairs_and_comparing_one_by_one(o, c, level, to_local, parents_ids, rel, idx) ==
    IF _get_matching_pairs_raises(o, level) # ""
    THEN Raise(c, _get_matching_pairs_raises(o, level))
    ELSE _diff_by_forming_pairs_loop(o, c, level, to_local, parents_ids, rel,
            _get_matching_pairs(o, level, idx[1], idx[2], idx[3], idx[4]), 1)

NoIndexes == <<-1, -1, -1, -1>>

RECURSIVE _report_items(_, _, _, _, _, _, _, _)
\* `for index, x in enumerate(level.t1[from:to])` of a delete (t = "t1") or of an
\* insert (t = "t2") segment.
_report_items(o, c, level, to_local, rel, t, from, to) ==
    IF from >= to THEN c
    ELSE LET vals == t_vals(IF t = "t1" THEN level.t1 ELSE level.t2)
             change_level ==
                IF t = "t1" THEN branch_deeper(level, vals[from + 1], notpresent, rel, IntV(from))
                ELSE branch_deeper(level, notpresent, vals[from + 1], rel, IntV(from))
             report_type == IF t = "t1" THEN "iterable_item_removed" ELSE "iterable_item_added"
         IN _report_items(o, _report_result(o, c, report_type, change_level, NoRepetition, to_local),
                          level, to_local, rel, t, from + 1, to)

RECURSIVE _diff_ordered_iterable_by_difflib_loop(_, _, _, _, _, _, _, _)
_diff_ordered_iterable_by_difflib_loop(o, c, level, to_local, parents_ids, rel, opcodes, n) ==
    IF n > Len(opcodes) \/ c.error # "" THEN c
    ELSE LET op == opcodes[n] IN
             Let(  IF op.tag = "replace"
                   THEN _diff_by_forming_pairs_and_comparing_one_by_one(
                            o, c, level, to_local, parents_ids, rel,
                            <<op.t1_from_index, op.t1_to_index, op.t2_from_index, op.t2_to_index>>)
                   ELSE IF op.tag = "delete"
                   THEN _report_items(o, c, level, to_local, rel, "t1",
                                      op.t1_from_index, op.t1_to_index)
                   ELSE IF op.tag = "insert"
                   THEN _report_items(o, c, level, to_local, rel, "t2",
                                      op.t2_from_index, op.t2_to_index)
                   ELSE c, LAMBDA c1 :
            _diff_ordered_iterable_by_difflib_loop(o, c1, level, to_local, parents_ids, rel,
                                                   opcodes, n + 1))

\* Returns the context; the opcodes it returns in the code are get_opcodes of the level.
_diff_ordered_iterable_by_difflib(o, c, level, to_local, parents_ids, rel) ==
    _diff_ordered_iterable_by_difflib_loop(o, c, level, to_local, parents_ids, rel,
        get_opcodes(t_vals(level.t1), t_vals(level.t2)), 1)

\* The pairwise result is kept only when it has fewer records.
KeepsPairwiseWhenFewer(local_tree_pass, local_tree_pass2) ==
    TreeLen(local_tree_pass) > TreeLen(local_tree_pass2)

\* `if len(local_tree_pass) >= len(local_tree_pass2)`
KeepsPairwise(local_tree_pass, local_tree_pass2) ==
    TreeLen(local_tree_pass) >= TreeLen(local_tree_pass2)

_diff_iterable_in_order(o, c, level, parents_ids, to_local) ==
    LET subscriptable == _iterables_subscriptable(level.t1, level.t2)
        rel == IF subscriptable THEN "SubscriptableIterable" ELSE "NonSubscriptableIterable"
    IN IF /\ ~o.zip_ordered_iterables
          /\ IsSequence(level.t1)
          /\ IsSequence(level.t2)
          /\ _all_values_basic_hashable(level.t1)
          /\ _all_values_basic_hashable(level.t2)
          /\ o.iterable_compare_func = "None"
       THEN LET outer == c.local_tree IN
                Let(     _diff_ordered_iterable_by_difflib(
                            o, [c EXCEPT !.local_tree = <<>>], level, TRUE, parents_ids, rel), LAMBDA pass1 :
                Let(get_opcodes(t_vals(level.t1), t_vals(level.t2)), LAMBDA opcodes_with_values :
            LET
                local_tree_pass == pass1.local_tree IN
                Let(     IF TreeLen(local_tree_pass) > 1 /\ pass1.error = ""
                         THEN _diff_by_forming_pairs_and_comparing_one_by_one(
                                o, [pass1 EXCEPT !.local_tree = <<>>], level, TRUE,
                                parents_ids, rel, NoIndexes)
                         ELSE pass1, LAMBDA pass2 :
            LET
                local_tree_pass2 == pass2.local_tree
                chosen == IF TreeLen(local_tree_pass) > 1
                          THEN IF KeepsPairwise(local_tree_pass, local_tree_pass2)
                               THEN local_tree_pass2
                               ELSE local_tree_pass
                          ELSE local_tree_pass
                record_opcodes == /\ TreeLen(local_tree_pass) > 1
                                  /\ ~KeepsPairwise(local_tree_pass, local_tree_pass2)
                opcodes == IF record_opcodes
                           THEN {e \in pass2.iterable_opcodes : e.path # level.path}
                                \cup {[path |-> level.path, opcodes |-> opcodes_with_values]}
                           ELSE pass2.iterable_opcodes
            IN IF pass2.error # "" THEN [pass2 EXCEPT !.local_tree = outer]
               ELSE Logged([pass2 EXCEPT !.tree = @ \o chosen,
                                         !.local_tree = outer,
                                         !.iterable_opcodes = opcodes],
                           "merge", Len(chosen)))))
       ELSE _diff_by_forming_pairs_and_comparing_one_by_one(
                o, c, level, to_local, parents_ids, rel, NoIndexes)

_diff_iterable(o, c, level, parents_ids, to_local) ==
    IF o.ignore_order
    THEN _diff_iterable_with_deephash(o, c, level, parents_ids, to_local)
    ELSE _diff_iterable_in_order(o, c, level, parents_ids, to_local)

_diff_tuple(o, c, level, parents_ids, to_local) ==
    _diff_iterable(o, c, level, parents_ids, to_local)

(***************************************************************************)
(* The distance cache (lfucache.py, by its contract): entries in the order *)
(* they were set, each with its use count; a set beyond the capacity       *)
(* evicts the oldest of the least used entries.  An entry holds a distance *)
(* (dist, in thousandths) or a pairing table (pairs).                      *)
(***************************************************************************)
CacheKey(kind, a, b) == [kind |-> kind, a |-> a, b |-> b]
CacheEntry(key, dist, pairs, freq) == [key |-> key, dist |-> dist, pairs |-> pairs, freq |-> freq]

_get_distance_cache_key(added_hash, removed_hash) ==
    IF HashGreater(added_hash, removed_hash)
    THEN CacheKey("dc", {added_hash}, {removed_hash})
    ELSE CacheKey("dc", {removed_hash}, {added_hash})

\* combine_hashes_lists(items=[hashes_added, hashes_removed], prefix='pairs_cache'):
\* each list is sorted before it is hashed.
combine_hashes_lists(hashes_added, hashes_removed) ==
    CacheKey("pairs_cache", Range(hashes_added), Range(hashes_removed))

CacheContains(cache, key) == \E n \in DOMAIN cache : cache[n].key = key
CacheIndex(cache, key) == CHOOSE n \in DOMAIN cache : cache[n].key = key
CacheValue(cache, key) == cache[CacheIndex(cache, key)]
\* LFUCache.get: the entry moves one use count forward.
CacheGet(cache, key) ==
    [n \in DOMAIN cache |-> IF cache[n].key = key THEN [cache[n] EXCEPT !.freq = @ + 1]
                            ELSE cache[n]]
\* LFUCache.set; DummyLFU.set (cache_size 0) stores nothing.
CacheSet(o, cache, key, dist, pairs) ==
    IF o.cache_size = 0 THEN cache
    ELSE IF CacheContains(cache, key)
    THEN [n \in DOMAIN cache |->
            IF cache[n].key = key THEN CacheEntry(key, dist, pairs, cache[n].freq + 1)
            ELSE cache[n]]
    ELSE LET added == Append(cache, CacheEntry(key, dist, pairs, 1))
             least == CHOOSE n \in DOMAIN added :
                        \A m \in DOMAIN added :
                            \/ added[m].freq > added[n].freq
                            \/ added[m].freq = added[n].freq /\ n <= m
         IN IF Len(added) > o.cache_size
            THEN [n \in 1..(Len(added) - 1) |-> IF n < least THEN added[n] ELSE added[n + 1]]
            ELSE added

(***************************************************************************)
(* The rough distance of a finished comparison (distance.py, by its        *)
(* contract): a normalised dissimilarity, here in thousandths.  Two        *)
(* numbers: their relative difference, at most the cutoff.  Otherwise the  *)
(* number of change records over the number of items of the two values.    *)
(***************************************************************************)
Thousand == 1000
Abs(n) == IF n < 0 THEN -n ELSE n
Min(a, b) == IF a <= b THEN a ELSE b

RECURSIVE SumSeq(_)
SumSeq(s) == IF s = <<>> THEN 0 ELSE s[1] + SumSeq(Tail(s))

RECURSIVE ItemLength(_, _)
ItemLength(x, fuel) ==
    IF ~IsRef(x) \/ fuel = 0 THEN 1
    ELSE 1 + SumSeq([n \in DOMAIN t_vals(x) |-> ItemLength(t_vals(x)[n], fuel - 1)])

_get_numbers_distance(num1, num2, max_) ==
    IF num1 = num2 THEN 0
    ELSE IF num1 + num2 = 0 THEN max_
    ELSE Min(max_, (max_ * Abs(num1 - num2)) \div Abs(num1 + num2))

_get_rough_distance(o, a, b, tree) ==
    IF ~IsRef(a) /\ ~IsRef(b) /\ a.k \in {"int", "float"} /\ b.k \in {"int", "float"}
    THEN _get_numbers_distance(a.v, b.v, o.cutoff_distance_for_pairs)
    ELSE IF TreeLen(tree) = 0 THEN 0
    ELSE (TreeLen(tree) * Thousand) \div (ItemLength(a, HeapDepth) + ItemLength(b, HeapDepth))

\* What the log says of the t1 of a nested instance: the cell of a container, 0 for a
\* scalar.
InstanceOf(a) == IF IsRef(a) THEN a.v ELSE 0

\* A nested instance that counts in statistics of its own.
NestedDeepDiffOwnStats(o, c, a, b) ==
        Let(     _diff(o, Logged([c EXCEPT !.tree = <<>>, !.local_tree = <<>>,
                                           !.iterable_opcodes = {}, !.visited = <<>>],
                                 "nested", InstanceOf(a)),
                       RootLevel(a, b), {id(a)}, FALSE), LAMBDA inner :
       [c |-> Logged([inner EXCEPT !.tree = c.tree, !.local_tree = c.local_tree,
                                   !.iterable_opcodes = c.iterable_opcodes,
                                   !.visited = c.visited,
                                   !.stats = c.stats],
                     "nested_done", InstanceOf(a)),
        tree |-> inner.tree])

\* DeepDiff(t1, t2, _parameters=..., _shared_parameters=...): an instance that is not
\* the root.  It has its own tree and opcodes and shares the statistics, the cache and
\* the table of hashes; its finally block does nothing (is_root is False, line 332).
NestedDeepDiff(o, c, a, b) ==
        Let(     _diff(o, Logged([c EXCEPT !.tree = <<>>, !.local_tree = <<>>,
                                           !.iterable_opcodes = {}, !.visited = <<>>],
                                 "nested", InstanceOf(a)),
                       RootLevel(a, b), {id(a)}, FALSE), LAMBDA inner :
       [c |-> Logged([inner EXCEPT !.tree = c.tree, !.local_tree = c.local_tree,
                                   !.iterable_opcodes = c.iterable_opcodes,
                                   !.visited = c.visited],
                     "nested_done", InstanceOf(a)),
        tree |-> inner.tree])

\* Returns the state after the call and the distance.
_get_rough_distance_of_hashed_objs(o, c, added_hash, removed_hash, added_hash_obj, removed_hash_obj) ==
    LET enabled == c.stats.DISTANCE_CACHE_ENABLED
        cache_key == _get_distance_cache_key(added_hash, removed_hash)
        hit == enabled /\ CacheContains(c.distance_cache, cache_key)
    IN IF hit
       THEN [c |-> Logged([c EXCEPT !.stats.DISTANCE_CACHE_HIT_COUNT = @ + 1,
                                    !.distance_cache = CacheGet(@, cache_key)],
                          "cache_hit", 0),
             distance |-> CacheValue(c.distance_cache, cache_key).dist]
       ELSE Let(NestedDeepDiff(o, IF enabled THEN Logged(c, "cache_miss", 0) ELSE c,
                               removed_hash_obj.item, added_hash_obj.item), LAMBDA diff :
            LET _distance == _get_rough_distance(o, removed_hash_obj.item, added_hash_obj.item,
                                                 diff.tree)
            IN IF diff.c.error # "" THEN [c |-> diff.c, distance |-> 0]
               ELSE [c |-> IF enabled /\ diff.c.stats.DISTANCE_CACHE_ENABLED
                           THEN Logged([diff.c EXCEPT !.distance_cache =
                                                  CacheSet(o, @, cache_key, _distance, {})],
                                       "cache_set", 0)
                           ELSE diff.c,
                     distance |-> _distance])

(***************************************************************************)
(* _get_most_in_common_pairs_in_iterables.  A candidate is                 *)
(* [added, removed, dist]; a pairing table is a set of [from, to].         *)
(***************************************************************************)
Candidate(added_hash, removed_hash, _distance) ==
    [added |-> added_hash, removed |-> removed_hash, dist |-> _distance]
PairOf(from_hash, to_hash) == [from |-> from_hash, to |-> to_hash]

\* _precalculate_distance_by_custom_compare_func (distance.py, by its contract): 0 for a
\* pair the function accepts, 1 for a pair it rejects, nothing for a pair it cannot compare.
\* The table as a set of candidates.
_precalculate_distance_by_custom_compare_func(o, hashes_added, hashes_removed, t1_hashtable, t2_hashtable) ==
    { Candidate(hashes_added[i], hashes_removed[j],
                IF iterable_compare_func(o, Lookup(t2_hashtable, hashes_added[i]).item,
                                         Lookup(t1_hashtable, hashes_removed[j]).item) = "True"
                THEN 0 ELSE Thousand) :
        <<i, j>> \in { ij \in (DOMAIN hashes_added) \X (DOMAIN hashes_removed) :
            iterable_compare_func(o, Lookup(t2_hashtable, hashes_added[ij[1]]).item,
                                  Lookup(t1_hashtable, hashes_removed[ij[2]]).item)
                # "CannotCompare" } }

\* The double loop over hashes_added and hashes_removed, at position k of the product.
RECURSIVE CandidatesLoop(_, _, _, _, _, _, _, _, _, _)
CandidatesLoop(o, c, hashes_added, hashes_removed, t1_hashtable, t2_hashtable, parents_ids, pre_calced_distances, k, found) ==
    IF k >= Len(hashes_added) * Len(hashes_removed) \/ c.error # ""
    THEN [c |-> c, found |-> found]
    ELSE LET added_hash == hashes_added[(k \div Len(hashes_removed)) + 1]
             removed_hash == hashes_removed[(k % Len(hashes_removed)) + 1]
             added_hash_obj == Lookup(t2_hashtable, added_hash)
             removed_hash_obj == Lookup(t1_hashtable, removed_hash)
             pre == {e \in pre_calced_distances :
                        e.added = added_hash /\ e.removed = removed_hash}
         IN IF id(removed_hash_obj.item) \in parents_ids
            THEN CandidatesLoop(o, c, hashes_added, hashes_removed, t1_hashtable, t2_hashtable,
                                parents_ids, pre_calced_distances, k + 1, found)
            ELSE Let(IF pre # {}
                     THEN [c |-> c, distance |-> (CHOOSE e \in pre : TRUE).dist]
                     ELSE _get_rough_distance_of_hashed_objs(
                             o, c, added_hash, removed_hash, added_hash_obj, removed_hash_obj),
                     LAMBDA measured :
                 CandidatesLoop(o, measured.c, hashes_added, hashes_removed, t1_hashtable,
                                t2_hashtable, parents_ids, pre_calced_distances, k + 1,
                                IF /\ measured.c.error = ""
                                   /\ measured.distance < o.cutoff_distance_for_pairs
                                THEN Append(found, Candidate(added_hash, removed_hash,
                                                             measured.distance))
                                ELSE found))

RECURSIVE SortedInts(_)
SortedInts(S) ==
    IF S = {} THEN <<>>
    ELSE LET least == CHOOSE n \in S : \A m \in S : n <= m
         IN <<least>> \o SortedInts(S \ {least})

\* most_in_common_pairs[from_hash][dist]: the removed hashes in the order they were added.
ToHashes(found, from_hash, dist) ==
    LET those == SelectSeq(found, LAMBDA e : e.added = from_hash /\ e.dist = dist)
    IN [n \in DOMAIN those |-> those[n].removed]

\* distances_to_from_hashes[dist]: the added hashes with a candidate at dist, in the
\* order of most_in_common_pairs.
FromHashes(found, hashes_added, dist) ==
    SelectSeq(hashes_added, LAMBDA h : \E n \in DOMAIN found :
                                            found[n].added = h /\ found[n].dist = dist)

\* `while to_hashes`: every to_hash not used yet is taken in turn, each one replacing
\* pairs[from_hash].
RECURSIVE TakeToHashes(_, _, _, _)
TakeToHashes(from_hash, to_hashes, n, acc) ==
    IF n > Len(to_hashes) THEN acc
    ELSE LET to_hash == to_hashes[n]
         IN TakeToHashes(from_hash, to_hashes, n + 1,
               IF to_hash \notin acc.used_to_hashes
               THEN [used_to_hashes |-> acc.used_to_hashes \cup {from_hash, to_hash},
                     pairs |-> {e \in acc.pairs : e.from # from_hash}
                               \cup {PairOf(from_hash, to_hash)}]
               ELSE acc)

RECURSIVE TakeFromHashes(_, _, _, _, _)
TakeFromHashes(found, from_hashes, dist, n, acc) ==
    IF n > Len(from_hashes) THEN acc
    ELSE TakeFromHashes(found, from_hashes, dist, n + 1,
            IF from_hashes[n] \notin acc.used_to_hashes
            THEN TakeToHashes(from_hashes[n], ToHashes(found, from_hashes[n], dist), 1, acc)
            ELSE acc)

RECURSIVE TakeDistances(_, _, _, _, _)
TakeDistances(found, hashes_added, dists, n, acc) ==
    IF n > Len(dists) THEN acc
    ELSE TakeDistances(found, hashes_added, dists, n + 1,
            TakeFromHashes(found, FromHashes(found, hashes_added, dists[n]), dists[n], 1, acc))

\* The table without `pairs.update(inverse_pairs)`.
GreedyPairsOneWay(found, hashes_added) ==
    TakeDistances(found, hashes_added, SortedInts({found[n].dist : n \in DOMAIN found}), 1,
                  [used_to_hashes |-> {}, pairs |-> {}]).pairs

\* The pairing table of the candidates found, both directions.
GreedyPairs(found, hashes_added) ==
    LET taken == TakeDistances(found, hashes_added,
                               SortedInts({found[n].dist : n \in DOMAIN found}), 1,
                               [used_to_hashes |-> {}, pairs |-> {}])
    IN taken.pairs \cup {PairOf(e.to, e.from) : e \in taken.pairs}

\* Returns the state after the call and the pairing table.
_get_most_in_common_pairs_in_iterables(o, c, hashes_added, hashes_removed, t1_hashtable, t2_hashtable, parents_ids) ==
    LET enabled == c.stats.DISTANCE_CACHE_ENABLED
        cache_key == combine_hashes_lists(hashes_added, hashes_removed)
        pre_calced_distances ==
            IF /\ hashes_added # <<>>
               /\ hashes_removed # <<>>
               /\ o.iterable_compare_func # "None"
               /\ Len(hashes_added) > 1
               /\ Len(hashes_removed) > 1
            THEN _precalculate_distance_by_custom_compare_func(
                    o, hashes_added, hashes_removed, t1_hashtable, t2_hashtable)
            ELSE {}
    IN IF enabled /\ CacheContains(c.distance_cache, cache_key)
       THEN [c |-> Paired(Logged([c EXCEPT !.distance_cache = CacheGet(@, cache_key)],
                                 "pairs_hit", 0),
                          Pairing(hashes_added, hashes_removed, <<>>,
                                  CacheValue(c.distance_cache, cache_key).pairs, TRUE)),
             pairs |-> CacheValue(c.distance_cache, cache_key).pairs]
       ELSE Let(CandidatesLoop(o, IF enabled THEN Logged(c, "pairs_miss", 0) ELSE c,
                               hashes_added, hashes_removed, t1_hashtable, t2_hashtable,
                               parents_ids, pre_calced_distances, 0, <<>>), LAMBDA looped :
            LET pairs == GreedyPairs(looped.found, hashes_added)
                returned == Paired(looped.c, Pairing(hashes_added, hashes_removed,
                                                     looped.found, pairs, FALSE))
            IN IF looped.c.error # "" THEN [c |-> looped.c, pairs |-> {}]
               ELSE [c |-> IF enabled /\ looped.c.stats.DISTANCE_CACHE_ENABLED
                           THEN Logged([returned EXCEPT !.distance_cache =
                                                    CacheSet(o, @, cache_key, 0, pairs)],
                                       "pairs_set", 0)
                           ELSE returned,
                     pairs |-> pairs])

(***************************************************************************)
(* _diff_iterable_with_deephash: iterables when the order is ignored.      *)
(***************************************************************************)
notpresent_indexed == IndexedHash(notpresent, <<>>, notpresent)

\* get_other_pair: the entry paired with hash_value, or notpresent_indexed.
HasOtherPair(pairs, hash_value) == \E e \in pairs : e.from = hash_value
OtherHash(pairs, hash_value) == (CHOOSE e \in pairs : e.from = hash_value).to
get_other_pair(pairs, hash_value, hashtable) ==
    IF HasOtherPair(pairs, hash_value) THEN Lookup(hashtable, OtherHash(pairs, hash_value))
    ELSE notpresent_indexed
\* ... what it leaves of pairs and of the_other_hashes.
PairsAfter(pairs, hash_value) ==
    IF HasOtherPair(pairs, hash_value)
    THEN {e \in pairs : e.from \notin {hash_value, OtherHash(pairs, hash_value)}}
    ELSE pairs
\* get_other_pair without `the_other_hashes.remove(other)`.
HashesKept(pairs, hash_value, the_other_hashes) == the_other_hashes

HashesAfter(pairs, hash_value, the_other_hashes) ==
    IF HasOtherPair(pairs, hash_value)
    THEN SelectSeq(the_other_hashes, LAMBDA h : h # OtherHash(pairs, hash_value))
    ELSE the_other_hashes

\* `for i in indexes:` of one hash of the loops below; side says which loop.
RECURSIVE _diff_hash_indexes(_, _, _, _, _, _, _, _, _, _)
_diff_hash_indexes(o, c, level, parents_ids, to_local, side, mine, other, indexes, n) ==
    IF n > Len(indexes) \/ c.error # "" THEN c
    ELSE LET change_level ==
                IF side = "added"
                THEN branch_deeper(level, other.item, mine.item, "SubscriptableIterable",
                                   IntV(indexes[n]))
                ELSE branch_deeper(level, mine.item, other.item, "SubscriptableIterable",
                                   IntV(indexes[n]))
             parents_ids_added == add_to_frozen_set(parents_ids, id(other.item)) IN
             Let(  IF other.item = notpresent
                   THEN _report_result(o, c, IF side = "added" THEN "iterable_item_added"
                                             ELSE "iterable_item_removed",
                                       change_level, NoRepetition, to_local)
                   ELSE _diff(o, c, change_level, parents_ids_added, to_local), LAMBDA c1 :
            _diff_hash_indexes(o, c1, level, parents_ids, to_local, side, mine, other,
                               indexes, n + 1))

\* The loop over hashes_added (side "added") or hashes_removed (side "removed").  st is
\* [c, returned, pairs, others]: others are the hashes of the other side still held.
RECURSIVE _diff_hashes(_, _, _, _, _, _, _, _, _, _)
_diff_hashes(o, st, level, parents_ids, to_local, side, hashes, t1_hashtable, t2_hashtable, n) ==
    IF n > Len(hashes) \/ st.c.error # "" THEN st
    ELSE Let(_count_diff(o, st.c), LAMBDA cd :
         LET
             hash_value == hashes[n]
             mine == Lookup(IF side = "added" THEN t2_hashtable ELSE t1_hashtable, hash_value)
             other == get_other_pair(st.pairs, hash_value,
                                     IF side = "added" THEN t1_hashtable ELSE t2_hashtable)
             all_indexes == IF side = "added" /\ other.item # notpresent THEN other.indexes
                            ELSE mine.indexes
             indexes == IF o.report_repetition THEN all_indexes ELSE <<all_indexes[1]>> IN
             Let(  _diff_hash_indexes(o, cd.c, level, parents_ids, to_local, side, mine, other,
                                      indexes, 1), LAMBDA c1 :
            IF Halt(cd) THEN [st EXCEPT !.c = cd.c, !.returned = TRUE]
            ELSE _diff_hashes(o, [c |-> c1, returned |-> FALSE,
                                  pairs |-> PairsAfter(st.pairs, hash_value),
                                  others |-> HashesAfter(st.pairs, hash_value, st.others)],
                              level, parents_ids, to_local, side, hashes,
                              t1_hashtable, t2_hashtable, n + 1)))

\* The counts and the index lists of t1 and of t2 are taken one for the other.
RECURSIVE _report_repetition_swapped(_, _, _, _, _, _, _, _)
_report_repetition_swapped(o, c, level, to_local, items_intersect, t1_hashtable, t2_hashtable, n) ==
    IF n > Len(items_intersect) THEN c
    ELSE LET in_t1 == Lookup(t1_hashtable, items_intersect[n])
             in_t2 == Lookup(t2_hashtable, items_intersect[n])
             repetition_change_level ==
                branch_deeper(level, in_t1.item, in_t2.item, "SubscriptableIterable",
                              IntV(in_t1.indexes[1]))
             repetition == [old_repeat |-> Len(in_t2.indexes), new_repeat |-> Len(in_t1.indexes),
                            old_indexes |-> in_t2.indexes, new_indexes |-> in_t1.indexes]
         IN _report_repetition_swapped(o,
               IF Len(in_t1.indexes) # Len(in_t2.indexes)
               THEN _report_result(o, c, "repetition_change", repetition_change_level,
                                   repetition, to_local)
               ELSE c,
               level, to_local, items_intersect, t1_hashtable, t2_hashtable, n + 1)

RECURSIVE _report_repetition_changes(_, _, _, _, _, _, _, _)
_report_repetition_changes(o, c, level, to_local, items_intersect, t1_hashtable, t2_hashtable, n) ==
    IF n > Len(items_intersect) THEN c
    ELSE LET in_t1 == Lookup(t1_hashtable, items_intersect[n])
             in_t2 == Lookup(t2_hashtable, items_intersect[n])
             repetition_change_level ==
                branch_deeper(level, in_t1.item, in_t2.item, "SubscriptableIterable",
                              IntV(in_t1.indexes[1]))
             repetition == [old_repeat |-> Len(in_t1.indexes), new_repeat |-> Len(in_t2.indexes),
                            old_indexes |-> in_t1.indexes, new_indexes |-> in_t2.indexes]
         IN _report_repetition_changes(o,
               IF Len(in_t1.indexes) # Len(in_t2.indexes)
               THEN _report_result(o, c, "repetition_change", repetition_change_level,
                                   repetition, to_local)
               ELSE c,
               level, to_local, items_intersect, t1_hashtable, t2_hashtable, n + 1)

_diff_iterable_with_deephash(o, c, level, parents_ids, to_local) ==
        Let(_create_hashtable(o, c, level, "t1"), LAMBDA h1 :
        Let(_create_hashtable(o, h1.c, level, "t2"), LAMBDA h2 :
    LET
        full_t1_hashtable == h1.hashtable
        full_t2_hashtable == h2.hashtable
        t1_hashes == HashKeys(full_t1_hashtable)
        t2_hashes == HashKeys(full_t2_hashtable)
        hashes_added == SelectSeq(t2_hashes, LAMBDA h : h \notin Range(t1_hashes))
        hashes_removed == SelectSeq(t1_hashes, LAMBDA h : h \notin Range(t2_hashes))
        get_pairs == ~((Len(hashes_added) + Len(hashes_removed)) * Thousand
                        > o.cutoff_intersection_for_pairs
                            * (Len(full_t1_hashtable) + Len(full_t2_hashtable) + 1))
        c0 == h2.c IN
        Let(      IF c0.stats.PASSES_COUNT < o.max_passes /\ get_pairs
                  THEN _get_most_in_common_pairs_in_iterables(
                          o, Logged([c0 EXCEPT !.stats.PASSES_COUNT = @ + 1], "pass", Len(level.path)),
                          hashes_added, hashes_removed, full_t1_hashtable, full_t2_hashtable,
                          parents_ids)
                  ELSE IF get_pairs
                  THEN [c |-> IF ~c0.stats.MAX_PASS_LIMIT_REACHED
                              THEN Logged([c0 EXCEPT !.stats.MAX_PASS_LIMIT_REACHED = TRUE],
                                          "MAX_PASSES_REACHED_MSG", c0.stats.PASSES_COUNT)
                              ELSE c0,
                        pairs |-> {}]
                  ELSE [c |-> c0, pairs |-> {}], LAMBDA paired :
        Let(     _diff_hashes(o, [c |-> paired.c, returned |-> FALSE, pairs |-> paired.pairs,
                                  others |-> hashes_removed],
                              level, parents_ids, to_local, "added", hashes_added,
                              full_t1_hashtable, full_t2_hashtable, 1), LAMBDA added :
        Let(       _diff_hashes(o, [c |-> added.c, returned |-> FALSE, pairs |-> added.pairs,
                                    others |-> hashes_added],
                                level, parents_ids, to_local, "removed", added.others,
                                full_t1_hashtable, full_t2_hashtable, 1), LAMBDA removed :
    LET
        items_intersect == SelectSeq(t2_hashes, LAMBDA h : h \in Range(t1_hashes))
    IN IF c0.error # "" THEN c0
       ELSE IF paired.c.error # "" THEN paired.c
       ELSE IF added.returned \/ added.c.error # "" THEN added.c
       ELSE IF removed.returned \/ removed.c.error # "" \/ ~o.report_repetition THEN removed.c
       ELSE _report_repetition_changes(o, removed.c, level, to_local, items_intersect,
                                       full_t1_hashtable, full_t2_hashtable, 1))))))

(***************************************************************************)
(* _diff: the dispatcher on the type of the pair.                          *)
(***************************************************************************)
type_check_func(x, type_group) == get_type(x) \in type_group

\* `level.t1 is level.t2` read as never true: every pair is compared.
is_never(a, b) == FALSE
\* `level.t1 is level.t2`
is_(a, b) == id(a) = id(b)

_diff_body(o, c, level, parents_ids, to_local) ==
        Let(_count_diff(o, c), LAMBDA cd :
    LET
        op == _use_custom_operator(o, cd.c, level)
        c1 == op.c
        report_type_change ==
            ~\E type_group \in o.ignore_type_in_groups :
                type_check_func(level.t1, type_group) /\ type_check_func(level.t2, type_group)
        kind == get_type(level.t1)
    IN IF Halt(cd) THEN cd.c
       ELSE IF op.prevent_default \/ c1.error # "" THEN c1
       ELSE IF is_(level.t1, level.t2) THEN c1
       ELSE IF _skip_this(o, level) THEN c1
       ELSE IF get_type(level.t1) # get_type(level.t2) /\ report_type_change
       THEN _diff_types(o, c1, level, to_local)
       ELSE IF get_type(level.t1) # get_type(level.t2) /\ NoneV \in {level.t1, level.t2}
       THEN _report_result(o, c1, "values_changed", level, NoRepetition, to_local)
       ELSE CASE kind = "bool" -> _diff_booleans(o, c1, level, to_local)
              [] kind \in {"str", "bytes"} -> _diff_str(o, c1, level, to_local)
              [] kind \in {"int", "float"} -> _diff_numbers(o, c1, level, to_local)
              [] kind = "dict" -> _diff_dict(o, c1, level, parents_ids, FALSE, to_local)
              [] kind = "tuple" -> _diff_tuple(o, c1, level, parents_ids, to_local)
              [] kind = "set" -> _diff_set(o, c1, level, to_local)
              [] kind = "list" -> _diff_iterable(o, c1, level, parents_ids, to_local)
              [] OTHER -> _diff_obj(o, c1, level, parents_ids, FALSE))

\* A call of _diff; the interpreter raises RecursionError beyond its recursion limit.
_diff(o, c, level, parents_ids, to_local) ==
    IF c.error # "" THEN c
    ELSE IF c.depth >= RecursionLimit THEN Raise(c, "RecursionError")
    ELSE [_diff_body(o, [c EXCEPT !.depth = @ + 1, !.visited = Append(@, level.path)],
                     level, parents_ids, to_local)
            EXCEPT !.depth = c.depth]

(***************************************************************************)
(* DeepDiff.__init__ of a root instance, in its steps, and get_stats.      *)
(***************************************************************************)
\* The ValueError the constructor raises for the keyword arguments o, "" if none.
ConfigError(o) ==
    IF o.kwargs # {} THEN "ValueError: not valid parameters"
    ELSE IF o.verbose_level \notin {0, 1, 2} THEN "ValueError: VERBOSE_LEVEL_RANGE_MSG"
    ELSE IF o.cache_purge_level \notin {0, 1, 2} THEN "ValueError: PURGE_LEVEL_RANGE_MSG"
    ELSE IF o.cutoff_distance_for_pairs < 0 \/ o.cutoff_distance_for_pairs > Thousand
    THEN "ValueError: CUTOFF_RANGE_ERROR_MSG"
    ELSE ""

\* Statistics in which no limit was ever reached.
NoLimitStats(stats) ==
    [ PASSES_COUNT |-> stats.PASSES_COUNT,
      DIFF_COUNT |-> stats.DIFF_COUNT,
      DISTANCE_CACHE_HIT_COUNT |-> stats.DISTANCE_CACHE_HIT_COUNT,
      MAX_PASS_LIMIT_REACHED |-> FALSE,
      MAX_DIFF_LIMIT_REACHED |-> FALSE ]

\* What the `finally` block leaves of self._stats.
PurgedStats(stats) ==
    [ PASSES_COUNT |-> stats.PASSES_COUNT,
      DIFF_COUNT |-> stats.DIFF_COUNT,
      DISTANCE_CACHE_HIT_COUNT |-> stats.DISTANCE_CACHE_HIT_COUNT,
      MAX_PASS_LIMIT_REACHED |-> stats.MAX_PASS_LIMIT_REACHED,
      MAX_DIFF_LIMIT_REACHED |-> stats.MAX_DIFF_LIMIT_REACHED ]

\* The object of a finished call: its result, the exception the call ended with, and
\* its attributes (_stats the only one modelled); has_dict is off once __dict__ is cleared.
Instance(result, error, has_dict, stats) ==
    [result |-> result, error |-> error, has_dict |-> has_dict, stats |-> stats]

IdleContext == NewContext(DefaultOptions)

\* The arguments are checked and the shared state of the root is created (lines 167-316).
Construct ==
    /\ phase = "idle"
    /\ run <= Len(opts)
    /\ IF ConfigError(opts[run]) # ""
       THEN /\ phase' = "returned"
            /\ ctx' = Raise(NewContext(opts[run]), ConfigError(opts[run]))
            /\ instances' = Append(instances,
                    Instance(<<>>, ConfigError(opts[run]), FALSE,
                             PurgedStats(NewStats(opts[run]))))
       ELSE /\ phase' = "constructed"
            /\ ctx' = NewContext(opts[run])
            /\ UNCHANGED instances
    /\ UNCHANGED <<heap, t1, t2, opts, run, caller>>

\* The body of the try block: the comparison from the root level (lines 318-330).
RunDiff ==
    /\ phase = "constructed"
    /\ ctx' = _diff(opts[run], ctx, RootLevel(t1, t2), {id(t1)}, FALSE)
    /\ phase' = "compared"
    /\ UNCHANGED <<heap, t1, t2, opts, run, instances, caller>>

\* The finally block (lines 331-346); then the call returns or raises.
Finalize ==
    /\ phase = "compared"
    /\ ctx' = IF opts[run].cache_purge_level # 0
              THEN [ctx EXCEPT !.distance_cache = <<>>, !.hashes = {}]
              ELSE ctx
    /\ instances' = Append(instances,
            Instance(IF ctx.error = "" THEN ctx.tree ELSE <<>>, ctx.error,
                     opts[run].cache_purge_level # 2, PurgedStats(ctx.stats)))
    /\ phase' = "returned"
    /\ UNCHANGED <<heap, t1, t2, opts, run, caller>>

\* The caller calls get_stats() on the object the call returned, if it returned one, and
\* goes on to its next call.
GetStats ==
    /\ phase = "returned"
    /\ caller' = Append(caller,
            IF instances[run].error # ""
            THEN [outcome |-> "no object", stats |-> PurgedStats(NewStats(DefaultOptions))]
            ELSE IF instances[run].has_dict
            THEN [outcome |-> "stats", stats |-> instances[run].stats]
            ELSE [outcome |-> "AttributeError", stats |-> PurgedStats(NewStats(DefaultOptions))])
    /\ run' = run + 1
    /\ phase' = "idle"
    /\ UNCHANGED <<heap, t1, t2, opts, ctx, instances>>

Next == Construct \/ RunDiff \/ Finalize \/ GetStats

(***************************************************************************)
(* The calls checked.  The inputs are drawn from a library of objects, the *)
(* documented examples and cyclic, private and opaque ones among them, and *)
(* from all small mappings, sets and lists.                                *)
(***************************************************************************)
\* mappings have keys among 1..MaxKey-1 and '__secret', sets items among 1..MaxKey
MaxKey == 3
\* lists have at most MaxLen items
MaxLen == 3

Library ==
    << Cell("dict", <<Item(IntV(1), IntV(1)), Item(IntV(2), IntV(2)),
                      Item(IntV(3), Ref(3)), Item(IntV(4), IntV(4))>>),
       Cell("dict", <<Item(IntV(1), IntV(1)), Item(IntV(2), IntV(4)), Item(IntV(3), Ref(4)),
                      Item(IntV(5), IntV(5)), Item(IntV(6), IntV(6))>>),
       Cell("list", Elems(<<IntV(3)>>)),
       Cell("list", Elems(<<IntV(3), IntV(4)>>)),
       Cell("set", Elems(<<IntV(1), IntV(2), IntV(3)>>)),
       Cell("set", Elems(<<IntV(2), IntV(3), IntV(4)>>)),
       Cell("list", Elems(<<IntV(1), IntV(2), IntV(3)>>)),
       Cell("list", Elems(<<IntV(3), IntV(1), IntV(2)>>)),
       Cell("dict", <<Item(StrV(1), Ref(9))>>),
       Cell("dict", <<Item(StrV(1), Ref(10))>>),
       Cell("list", Elems(<<IntV(1), IntV(2), IntV(3), IntV(4)>>)),
       Cell("list", Elems(<<IntV(9), IntV(2), IntV(3)>>)),
       Cell("dict", <<Item(StrV(1), Ref(13)), Item(IntV(2), IntV(2))>>),
       Cell("dict", <<Item(IntV(2), IntV(3))>>),
       Cell("list", Elems(<<IntV(1), Ref(15)>>)),
       Cell("list", Elems(<<Ref(3), IntV(1)>>)),
       Cell("object", <<Item(StrV(1), IntV(1)), Item(PrivateStr, IntV(2))>>),
       Cell("object", <<Item(StrV(1), IntV(1)), Item(PrivateStr, IntV(3)),
                        Item(StrV(2), IntV(2))>>),
       Cell("opaque", <<>>),
       Cell("tuple", Elems(<<IntV(1), IntV(2)>>)),
       Cell("list", Elems(<<IntV(1), Ref(22)>>)),
       Cell("list", Elems(<<IntV(1), Ref(21)>>)),
       Cell("list", Elems(<<IntV(1), Ref(23)>>)),
       Cell("dict", <<Item(IntV(1), IntV(1)), Item(PrivateStr, IntV(5))>>) >>

LibraryValues ==
    {Ref(i) : i \in DOMAIN Library}
        \cup {IntV(1), IntV(2), FloatV(1), BoolV(1), StrV(1), NoneV}

LibraryOptions ==
    { DefaultOptions,
      [DefaultOptions EXCEPT !.iterable_compare_func = "same_type"],
      [DefaultOptions EXCEPT !.ignore_type_in_groups = {{"int", "float"}, {"list", "tuple"}}],
      [DefaultOptions EXCEPT !.ignore_private_variables = FALSE],
      [DefaultOptions EXCEPT !.max_diffs = <<1>>, !.cache_purge_level = 2] }

\* The mappings with keys among 1..MaxKey-1 and '__secret' and values 1 or 2.
DictKeys == [i \in 1..MaxKey |-> IF i < MaxKey THEN IntV(i) ELSE PrivateStr]
SmallDicts ==
    { Cell("dict", [n \in DOMAIN SelectSeq(DictKeys, LAMBDA key : f[key] # notpresent) |->
                        LET key == SelectSeq(DictKeys, LAMBDA k : f[k] # notpresent)[n]
                        IN Item(key, f[key])]) :
        f \in [Range(DictKeys) -> {notpresent, IntV(1), IntV(2)}] }

\* The sets of integers among 1..MaxKey.
SmallSets ==
    { Cell("set", Elems(SelectSeq([i \in 1..MaxKey |-> IntV(i)], LAMBDA x : x \in S))) :
        S \in SUBSET {IntV(i) : i \in 1..MaxKey} }

\* The lists of at most MaxLen items among 1 and 2.
SmallLists ==
    UNION { { Cell("list", Elems(vals)) : vals \in [1..n -> {IntV(1), IntV(2)}] } :
            n \in 0..MaxLen }

ListOptions ==
    { [DefaultOptions EXCEPT !.iterable_compare_func = "equal"],
      [DefaultOptions EXCEPT !.iterable_compare_func = "always"],
      [DefaultOptions EXCEPT !.max_diffs = <<0>>],
      [DefaultOptions EXCEPT !.max_diffs = <<2>>, !.cache_purge_level = 0] }

Idle ==
    /\ run = 1
    /\ phase = "idle"
    /\ ctx = IdleContext
    /\ instances = <<>>
    /\ caller = <<>>

\* x is a list of scalars.
FlatList(x) == get_type(x) = "list" /\ \A n \in DOMAIN t_vals(x) : ~IsRef(t_vals(x)[n])

InitLibrary ==
    /\ heap = Library
    /\ t1 \in LibraryValues
    /\ t2 \in LibraryValues
    /\ \E o \in LibraryOptions \cup ListOptions :
        /\ o \in LibraryOptions \/ (FlatList(t1) /\ FlatList(t2))
        /\ opts = <<o>>

InitSmall ==
    /\ \/ \E a \in SmallDicts, b \in SmallDicts : heap = <<a, b>> /\ opts = <<DefaultOptions>>
       \/ \E a \in SmallSets, b \in SmallSets : heap = <<a, b>> /\ opts = <<DefaultOptions>>
       \/ \E a \in SmallLists, b \in SmallLists, o \in ListOptions :
            heap = <<a, b>> /\ opts = <<o>>
    /\ t1 = Ref(1)
    /\ t2 = Ref(2)

Init == (InitLibrary \/ InitSmall) /\ Idle

Spec == Init /\ [][Next]_vars

(***************************************************************************)
(* The calls checked with ignore_order: each call is made twice on the     *)
(* same inputs, first with cache_size 0 and then with a cache, with and    *)
(* without the sampling of the auto-tuner.                                 *)
(***************************************************************************)
\* max_diffs is among 1..MaxDiffs when it is given
MaxDiffs == 9
\* max_passes is among 0..MaxPasses when it is given
MaxPasses == 1
\* the cache_size of the second call
CacheSize == 4
\* the cache_tuning_sample_size of the second call, when it samples
SampleSize == 2

UnorderedLibrary ==
    << Cell("list", Elems(<<IntV(1), IntV(2)>>)),
       Cell("list", Elems(<<IntV(1), IntV(3)>>)),
       Cell("list", Elems(<<Ref(1)>>)),
       Cell("list", Elems(<<Ref(2)>>)),
       Cell("dict", <<Item(IntV(1), Ref(1)), Item(IntV(2), Ref(1))>>),
       Cell("dict", <<Item(IntV(1), Ref(2)), Item(IntV(2), Ref(2))>>),
       Cell("list", Elems(<<Ref(3), IntV(7)>>)),
       Cell("list", Elems(<<Ref(4), IntV(8)>>)),
       Cell("list", Elems(<<IntV(1), IntV(1), IntV(2)>>)),
       Cell("list", Elems(<<Ref(1), Ref(2)>>)),
       Cell("list", Elems(<<Ref(2), Ref(1), IntV(5)>>)) >>

IgnoreOrder == [DefaultOptions EXCEPT !.ignore_order = TRUE]

UnorderedOptions ==
    { IgnoreOrder,
      [IgnoreOrder EXCEPT !.report_repetition = TRUE],
      [IgnoreOrder EXCEPT !.max_diffs = <<2>>, !.cache_purge_level = 2],
      [IgnoreOrder EXCEPT !.max_passes = 1, !.cache_purge_level = 2] }
        \cup { [IgnoreOrder EXCEPT !.max_diffs = <<k>>] : k \in 1..MaxDiffs }
        \cup { [IgnoreOrder EXCEPT !.max_passes = k, !.cache_purge_level = 0] : k \in 0..MaxPasses }

InitIgnoreOrder ==
    /\ heap = UnorderedLibrary
    /\ t1 \in {Ref(i) : i \in DOMAIN UnorderedLibrary}
    /\ t2 \in {Ref(i) : i \in DOMAIN UnorderedLibrary}
    /\ \E o \in UnorderedOptions, sample \in {0, SampleSize} :
            opts = << [o EXCEPT !.cache_size = 0],
                      [o EXCEPT !.cache_size = CacheSize, !.cache_tuning_sample_size = sample] >>
    /\ Idle

SpecIgnoreOrder == InitIgnoreOrder /\ [][Next]_vars

(***************************************************************************)
(* The calls checked for the validation of the keyword arguments: one      *)
(* argument at a time is given a value inside or outside its range, with   *)
(* the order significant and ignored, on all small lists.                  *)
(***************************************************************************)
ConfigOptions ==
    UNION { { [base EXCEPT !.verbose_level = k] : k \in {-1, 0, 1, 2, 3} }
            \cup { [base EXCEPT !.cache_purge_level = k] : k \in {0, 1, 2, 3} }
            \cup { [base EXCEPT !.cutoff_distance_for_pairs = k] :
                        k \in {-1, 0, CUTOFF_DISTANCE_FOR_PAIRS_DEFAULT, Thousand, Thousand + 1} }
            \cup { [base EXCEPT !.cutoff_intersection_for_pairs = k] :
                        k \in {-1, 0, CUTOFF_INTERSECTION_FOR_PAIRS_DEFAULT, Thousand,
                               Thousand + 500} }
            \cup { [base EXCEPT !.kwargs = {"ignore_ordr"}] } :
            base \in {DefaultOptions, IgnoreOrder} }

InitConfig ==
    /\ \E a \in SmallLists, b \in SmallLists : heap = <<a, b>>
    /\ t1 = Ref(1)
    /\ t2 = Ref(2)
    /\ \E o \in ConfigOptions : opts = <<o>>
    /\ Idle

SpecConfig == InitConfig /\ [][Next]_vars

(***************************************************************************)
(* The calls checked for items that can not be hashed: collections with an *)
(* object DeepHash fails on (cell 1) or with a byte string that does not   *)
(* decode, compared by their hashes (sets, lists with the order ignored),  *)
(* and objects whose fields can not be read (cells 1, 11, 12).             *)
(***************************************************************************)
UnhashableLibrary ==
    << Cell("opaque", <<>>),
       Cell("list", Elems(<<IntV(1), Ref(1), IntV(2)>>)),
       Cell("list", Elems(<<IntV(1), IntV(2)>>)),
       Cell("list", Elems(<<Ref(1), IntV(3), IntV(1)>>)),
       Cell("list", Elems(<<IntV(1), BytesV(1), IntV(2)>>)),
       Cell("list", Elems(<<BytesV(1)>>)),
       Cell("list", Elems(<<Ref(1)>>)),
       Cell("list", Elems(<<IntV(4), IntV(1)>>)),
       Cell("set", Elems(<<IntV(1), BytesV(1)>>)),
       Cell("set", Elems(<<IntV(1), IntV(2)>>)),
       Cell("opaque", <<Item(StrV(1), IntV(1))>>),
       Cell("opaque", <<Item(StrV(1), IntV(2))>>),
       Cell("list", Elems(<<IntV(1), Ref(11)>>)),
       Cell("list", Elems(<<IntV(2), Ref(12)>>)) >>

UnhashableOptions ==
    { DefaultOptions, IgnoreOrder, [IgnoreOrder EXCEPT !.report_repetition = TRUE] }

InitUnhashable ==
    /\ heap = UnhashableLibrary
    /\ t1 \in {Ref(i) : i \in 2..Len(UnhashableLibrary)}
    /\ t2 \in {Ref(i) : i \in 2..Len(UnhashableLibrary)}
    /\ \E o \in UnhashableOptions : opts = <<o>>
    /\ Idle

SpecUnhashable == InitUnhashable /\ [][Next]_vars

(***************************************************************************)
(* The calls checked for the custom operators: up to MaxOperators of them, *)
(* on scalars, lists and a dict, with and without an excluded type.        *)
(***************************************************************************)
OperatorLibrary ==
    << Cell("list", Elems(<<IntV(1), IntV(2)>>)),
       Cell("list", Elems(<<IntV(1), IntV(3)>>)),
       Cell("list", Elems(<<IntV(1), StrV(1)>>)),
       Cell("dict", <<Item(StrV(1), Ref(1)), Item(StrV(2), IntV(1))>>),
       Cell("dict", <<Item(StrV(1), Ref(2)), Item(StrV(2), IntV(2))>>) >>

OperatorKinds ==
    { Operator({"int"}, TRUE), Operator({"int"}, FALSE),
      Operator({"list"}, TRUE), Operator({"int", "list", "dict"}, FALSE),
      Operator({"str"}, TRUE) }

OperatorOptions ==
    UNION { { [base EXCEPT !.custom_operators = ops] :
                    ops \in UNION { [1..n -> OperatorKinds] : n \in 0..MaxOperators } } :
            base \in { DefaultOptions, [DefaultOptions EXCEPT !.exclude_types = {"int"}] } }

InitOperators ==
    /\ heap = OperatorLibrary
    /\ t1 \in {IntV(1), Ref(1), Ref(3), Ref(4)}
    /\ t2 \in {IntV(1), IntV(2), Ref(1), Ref(2), Ref(5)}
    /\ \E o \in OperatorOptions : opts = <<o>>
    /\ Idle

SpecOperators == InitOperators /\ [][Next]_vars

(***************************************************************************)
(* The calls checked for the pairing of the added and the removed items    *)
(* with the order ignored: lists of strings, of numbers with repetitions   *)
(* and of lists, with the default cutoffs and with cutoffs of 1.           *)
(***************************************************************************)
PairingLibrary ==
    << Cell("list", Elems(<<StrV(1), StrV(2)>>)),
       Cell("list", Elems(<<StrV(3)>>)),
       Cell("list", Elems(<<StrV(3), StrV(4)>>)),
       Cell("list", Elems(<<StrV(1), StrV(2), StrV(5)>>)),
       Cell("list", Elems(<<IntV(1), IntV(2)>>)),
       Cell("list", Elems(<<IntV(1), IntV(3)>>)),
       Cell("list", Elems(<<IntV(1), IntV(4)>>)),
       Cell("list", Elems(<<Ref(5), Ref(6)>>)),
       Cell("list", Elems(<<Ref(7)>>)),
       Cell("list", Elems(<<Ref(6), Ref(7)>>)),
       Cell("list", Elems(<<IntV(1), IntV(1), IntV(2)>>)),
       Cell("list", Elems(<<IntV(1), IntV(2), IntV(2), IntV(3)>>)),
       Cell("list", Elems(<<IntV(10), IntV(-10)>>)),
       Cell("list", Elems(<<IntV(11), IntV(-11)>>)) >>

PairingOptions ==
    { [IgnoreOrder EXCEPT !.cutoff_distance_for_pairs = distance,
                          !.cutoff_intersection_for_pairs = intersection,
                          !.report_repetition = repetition,
                          !.cache_size = size] :
        distance \in {CUTOFF_DISTANCE_FOR_PAIRS_DEFAULT, Thousand},
        intersection \in {CUTOFF_INTERSECTION_FOR_PAIRS_DEFAULT, Thousand},
        repetition \in BOOLEAN,
        size \in {0, CacheSize} }

InitPairing ==
    /\ heap = PairingLibrary
    /\ t1 \in {Ref(i) : i \in DOMAIN PairingLibrary}
    /\ t2 \in {Ref(i) : i \in DOMAIN PairingLibrary}
    /\ \E o \in PairingOptions : opts = <<o>>
    /\ Idle

SpecPairing == InitPairing /\ [][Next]_vars

(***************************************************************************)
(* Calls that keep the cache tuner busy: the order is ignored, the cache   *)
(* has a capacity and the tuner samples every cache_tuning_sample_size     *)
(* diffs (_count_diff, _auto_tune_cache, _auto_off_cache, lines 1484-1518).*)
(***************************************************************************)
TuningLibrary ==
    << Cell("list", Elems(<<IntV(1), IntV(2)>>)),
       Cell("list", Elems(<<IntV(1), IntV(3)>>)),
       Cell("list", Elems(<<IntV(1), IntV(2), IntV(9)>>)),
       Cell("list", Elems(<<IntV(1), IntV(3), IntV(8)>>)),
       Cell("list", Elems(<<Ref(1), Ref(3)>>)),
       Cell("list", Elems(<<Ref(2), Ref(4)>>)),
       Cell("list", Elems(<<Ref(2), Ref(3)>>)),
       Cell("list", Elems(<<Ref(5), Ref(7)>>)),
       Cell("list", Elems(<<Ref(6), Ref(5)>>)),
       Cell("list", Elems(<<Ref(1), Ref(2), Ref(3)>>)),
       Cell("list", Elems(<<Ref(4), Ref(2), Ref(1)>>)),
       Cell("list", Elems(<<Ref(5), Ref(6), Ref(10)>>)),
       Cell("list", Elems(<<Ref(7), Ref(11), Ref(4)>>)) >>

TuningOptions ==
    { [IgnoreOrder EXCEPT !.cutoff_distance_for_pairs = cutoff,
                          !.cutoff_intersection_for_pairs = cutoff,
                          !.max_diffs = max_diffs,
                          !.cache_size = CacheSize,
                          !.cache_tuning_sample_size = sample] :
        cutoff \in {CUTOFF_DISTANCE_FOR_PAIRS_DEFAULT, Thousand},
        max_diffs \in {<<>>, <<MaxDiffs>>},
        sample \in {1, SampleSize, 3 * SampleSize} }

InitTuning ==
    /\ heap = TuningLibrary
    /\ t1 \in {Ref(i) : i \in {1, 3, 5, 8, 10, 12}}
    /\ t2 \in {Ref(i) : i \in {2, 4, 6, 7, 8, 9, 11, 13}}
    /\ \E o \in TuningOptions : opts = <<o>>
    /\ Idle

SpecTuning == InitTuning /\ [][Next]_vars

(***************************************************************************)
(* Lists that contain themselves, directly (cells 5, 6) or through a list  *)
(* they contain (cells 1-2, 3-4), compared with the order ignored.         *)
(***************************************************************************)
CyclicLibrary ==
    << Cell("list", Elems(<<Ref(2)>>)),
       Cell("list", Elems(<<Ref(1), IntV(5), IntV(7)>>)),
       Cell("list", Elems(<<Ref(4)>>)),
       Cell("list", Elems(<<Ref(3), IntV(6), IntV(7)>>)),
       Cell("list", Elems(<<Ref(5), IntV(1)>>)),
       Cell("list", Elems(<<Ref(6), IntV(2)>>)),
       Cell("list", Elems(<<IntV(1), IntV(2)>>)),
       Cell("list", Elems(<<IntV(1), IntV(3)>>)),
       Cell("list", Elems(<<Ref(7), IntV(9)>>)),
       Cell("list", Elems(<<Ref(8), IntV(9)>>)) >>

\* Every call has a budget that ends it: without one the nested instances of cells 1-4
\* call each other until the stack is used up.
CyclicOptions ==
    { [IgnoreOrder EXCEPT !.cutoff_intersection_for_pairs = intersection,
                          !.max_passes = max_passes] :
        intersection \in {CUTOFF_INTERSECTION_FOR_PAIRS_DEFAULT, Thousand},
        max_passes \in 0..(MaxPasses + 1) }
      \cup { [IgnoreOrder EXCEPT !.cutoff_intersection_for_pairs = intersection,
                                 !.max_diffs = <<MaxPasses + 1>>] :
                intersection \in {CUTOFF_INTERSECTION_FOR_PAIRS_DEFAULT, Thousand} }

InitCyclic ==
    /\ heap = CyclicLibrary
    /\ t1 \in {Ref(i) : i \in DOMAIN CyclicLibrary}
    /\ t2 \in {Ref(i) : i \in DOMAIN CyclicLibrary}
    /\ \E o \in CyclicOptions : opts = <<o>>
    /\ Idle

SpecCyclic == InitCyclic /\ [][Next]_vars

(***************************************************************************)
(* Calls with filters: mappings in mappings, compared with include_paths,  *)
(* exclude_paths and exclude_types (_skip_this, lines 463-502).            *)
(***************************************************************************)
FilterLibrary ==
    << Cell("dict", <<Item(IntV(1), Ref(3)), Item(IntV(2), IntV(1))>>),
       Cell("dict", <<Item(IntV(1), Ref(4)), Item(IntV(2), IntV(2))>>),
       Cell("dict", <<Item(IntV(1), IntV(1)), Item(IntV(2), StrV(1))>>),
       Cell("dict", <<Item(IntV(1), IntV(2)), Item(IntV(2), StrV(2)), Item(IntV(3), IntV(3))>>) >>

\* root[k1][k2]... as a path
KeyPath(keys) == [n \in DOMAIN keys |-> PathElem("Dict", IntV(keys[n]), NoneV)]
FilterPaths == {KeyPath(<<1>>), KeyPath(<<2>>), KeyPath(<<1, 1>>), KeyPath(<<1, 2>>)}

FilterOptions ==
    { [DefaultOptions EXCEPT !.include_paths = include,
                             !.exclude_paths = exclude,
                             !.exclude_types = types] :
        include \in {{}} \cup {{path} : path \in FilterPaths},
        exclude \in {{}} \cup {{path} : path \in FilterPaths},
        types \in {{}, {"int"}, {"str"}} }

InitFilters ==
    /\ heap = FilterLibrary
    /\ t1 \in {Ref(1), Ref(3)}
    /\ t2 \in {Ref(2), Ref(4)}
    /\ \E o \in FilterOptions : opts = <<o>>
    /\ Idle

SpecFilters == InitFilters /\ [][Next]_vars

(***************************************************************************)
(* Calls on ordered sequences of scalars of several types, with the        *)
(* default options: 1, 2 and 1.0 are such that 1 == 1.0 holds in Python    *)
(* while type(1) is not type(1.0).                                         *)
(***************************************************************************)
ScalarLists ==
    UNION { { Cell("list", Elems(vals)) : vals \in [1..n -> {IntV(1), IntV(2), FloatV(1)}] } :
            n \in 0..MaxLen }

InitScalars ==
    /\ \E a \in ScalarLists, b \in ScalarLists : heap = <<a, b>>
    /\ t1 = Ref(1)
    /\ t2 = Ref(2)
    /\ opts = <<DefaultOptions>>
    /\ Idle

SpecScalars == InitScalars /\ [][Next]_vars

(***************************************************************************)
(* The properties checked.  They are stated on the state a call has        *)
(* reached when it returned: the object it left (instances[run]), the      *)
(* levels it visited and the log of its run (ctx).                         *)
(***************************************************************************)
Returned == phase = "returned"
Result == instances[run].result
Options == opts[run]

\* A record without the position of the log it was reported at.
Plain(r) == [report_type |-> r.report_type, path |-> r.path, t1 |-> r.t1, t2 |-> r.t2]
Records == {Plain(Result[n]) : n \in DOMAIN Result}
\* The path of the child with the key (or index) param of the root.
ChildPath(rel, param) == <<PathElem(rel, param, NoneV)>>

\* x is a container that contains itself.
ContainsItself(x) == IsRef(x) /\ \E n \in DOMAIN Obj(x).items : Obj(x).items[n].val = x

\* C1: for every value v, cyclic ones included, diff(v, v) without custom operators
\* returns normally with an empty report.
C1_Reflexive ==
    (Returned /\ t1 = t2 /\ Options.custom_operators = <<>>)
        => instances[run].error = "" /\ Result = <<>>

C1_Witness ==
    /\ Returned
    /\ t1 = t2
    /\ ContainsItself(t1)
    /\ Options = DefaultOptions
    /\ Result = <<>>

\* The a-side value of the level at the first k elements of a path.
RECURSIVE ASideAt(_, _)
ASideAt(path, k) ==
    IF k = 0 THEN t1 ELSE GetItem(ASideAt(path, k - 1), path[k].param)

\* The a-side value of the level at the first k elements of the path of record r (or of
\* the visited path r): it is r.t1 at the level of the record itself.
ASideOf(path, k, last) == IF k = Len(path) THEN last ELSE ASideAt(path, k)
\* ... is on the active recursion stack: it is the a-side value of an enclosing level.
ASideOnStack(path, k, last) ==
    /\ IsRef(ASideOf(path, k, last))
    /\ \E j \in 0..(k - 1) : ASideAt(path, j) = ASideOf(path, k, last)

\* a and b are containers of one shape that contain themselves, like
\* a = {}; a['self'] = a; b = {}; b['self'] = b.
SelfContainingAlike(a, b) ==
    /\ ContainsItself(a)
    /\ IsRef(b)
    /\ Obj(a).type = Obj(b).type
    /\ Obj(a).type \in {"dict", "list"}
    /\ Len(Obj(a).items) = Len(Obj(b).items)
    /\ \A n \in DOMAIN Obj(a).items :
        /\ Obj(a).items[n].key = Obj(b).items[n].key
        /\ \/ Obj(a).items[n].val = a /\ Obj(b).items[n].val = b
           \/ ~IsRef(Obj(a).items[n].val) /\ Obj(a).items[n].val = Obj(b).items[n].val

\* No level below a child whose a-side value is on the recursion stack is visited.
NeverDescendedOnStack ==
    \A n \in DOMAIN ctx.visited :
        \A k \in 1..Len(ctx.visited[n]) :
            ~ASideOnStack(ctx.visited[n], k, ASideAt(ctx.visited[n], k))

MaxDiffsReached == \E n \in DOMAIN ctx.log : ctx.log[n].ev = "MAX_DIFFS_REACHED_MSG"
MaxDiffsReachedAt == CHOOSE n \in DOMAIN ctx.log : ctx.log[n].ev = "MAX_DIFFS_REACHED_MSG"

\* C4: once the max_diffs budget has been crossed no further change record is added to
\* the result, and the call returns the records computed before without an error.
C4_NothingAfterLimit ==
    (Returned /\ MaxDiffsReached)
        => /\ instances[run].error = ""
           /\ \A n \in DOMAIN Result : Result[n].at < MaxDiffsReachedAt

\* The number of records of the result with a report type and a path.
Reported(report_type, path) ==
    Cardinality({n \in DOMAIN Result :
                    Result[n].report_type = report_type /\ Result[n].path = path})

\* A call on two different sequences of one type that returned, without a budget.
ComparedAsIterables ==
    /\ Returned
    /\ instances[run].error = ""
    /\ IsRef(t1) /\ IsRef(t2) /\ t1 # t2
    /\ get_type(t1) = get_type(t2)
    /\ IsSequence(t1)
    /\ Options.max_diffs = <<>>

MovedRecord(i, j, x, y) ==
    [report_type |-> "iterable_item_moved", path |-> <<PathElem("SubscriptableIterable", IntV(i), IntV(j))>>,
     t1 |-> x, t2 |-> y]

\* The documented lists [1, 2, 3] and [3, 1, 2] give three moved records and nothing else.
ThreeMoved ==
    /\ Len(Result) = 3
    /\ Records = { MovedRecord(0, 1, IntV(1), IntV(1)), MovedRecord(1, 2, IntV(2), IntV(2)),
                   MovedRecord(2, 0, IntV(3), IntV(3)) }

MovedScenario == Returned /\ heap = Library /\ t1 = Ref(7) /\ t2 = Ref(8)

\* Every pair the function matched at different indices is reported as moved, once, and
\* neither as removed at its old index nor as added at its new one.
MatchesReportedAsMoved ==
    LET pairs == _get_matching_pairs(Options, RootLevel(t1, t2), -1, -1, -1, -1)
    IN \A n \in DOMAIN pairs :
        (pairs[n].i # -1 /\ pairs[n].j # -1 /\ pairs[n].i # pairs[n].j)
            => /\ Reported("iterable_item_moved",
                           <<PathElem("SubscriptableIterable", IntV(pairs[n].i), IntV(pairs[n].j))>>) = 1
               /\ Reported("iterable_item_removed",
                           ChildPath("SubscriptableIterable", IntV(pairs[n].i))) = 0
               /\ Reported("iterable_item_added",
                           ChildPath("SubscriptableIterable", IntV(pairs[n].j))) = 0

\* C8 as stated: with order significant and any custom matching function that accepts
\* equal elements, [1, 2, 3] against [3, 1, 2] gives exactly three moved records and no
\* added or removed one, and every pair the function matches at different indices is
\* reported as one moved record, never as an add and a remove.
C8_AsStated ==
    /\ (MovedScenario /\ Options.iterable_compare_func \in {"equal", "same_type", "always"})
            => ThreeMoved
    /\ (ComparedAsIterables /\ Options.iterable_compare_func # "None")
            => MatchesReportedAsMoved

\* C8: with order significant and a custom matching function that accepts exactly the
\* equal elements, [1, 2, 3] against [3, 1, 2] gives exactly three moved records and no
\* added or removed one; with any custom matching function, every pair it matches at
\* different indices is reported as one moved record, never as an add and a remove.
C8_Moved ==
    /\ (MovedScenario /\ Options.iterable_compare_func = "equal") => ThreeMoved
    /\ (ComparedAsIterables /\ Options.iterable_compare_func # "None")
            => MatchesReportedAsMoved

C8_Witness ==
    /\ MovedScenario
    /\ Options.iterable_compare_func = "equal"
    /\ Reported("iterable_item_moved", <<PathElem("SubscriptableIterable", IntV(2), IntV(0))>>) = 1

\* A call on two different mappings that returned, without a budget.
ComparedAsMappings ==
    /\ Returned
    /\ instances[run].error = ""
    /\ IsRef(t1) /\ IsRef(t2) /\ t1 # t2
    /\ get_type(t1) = "dict" /\ get_type(t2) = "dict"
    /\ Options.max_diffs = <<>>

\* What the claim says of the key sets keys1 of a and keys2 of b: one record for a key of
\* one side only, and a comparison under its path for each of the common keys given.
KeysReported(keys1, keys2, compared) ==
    /\ \A key \in keys2 \ keys1 :
            /\ Reported("dictionary_item_added", ChildPath("Dict", key)) = 1
            /\ \E n \in DOMAIN Result :
                    Plain(Result[n]) = [report_type |-> "dictionary_item_added",
                                        path |-> ChildPath("Dict", key),
                                        t1 |-> notpresent, t2 |-> GetItem(t2, key)]
    /\ \A key \in keys1 \ keys2 :
            /\ Reported("dictionary_item_removed", ChildPath("Dict", key)) = 1
            /\ \E n \in DOMAIN Result :
                    Plain(Result[n]) = [report_type |-> "dictionary_item_removed",
                                        path |-> ChildPath("Dict", key),
                                        t1 |-> GetItem(t1, key), t2 |-> notpresent]
    /\ \A key \in compared :
            /\ Cardinality({n \in DOMAIN ctx.visited : ctx.visited[n] = ChildPath("Dict", key)}) = 1
            /\ Reported("dictionary_item_added", ChildPath("Dict", key)) = 0
            /\ Reported("dictionary_item_removed", ChildPath("Dict", key)) = 0

\* The report of the documented mappings.
MappingScenario == Returned /\ heap = Library /\ t1 = Ref(1) /\ t2 = Ref(2)
MappingReport ==
    /\ Len(Result) = 5
    /\ Records =
        { [report_type |-> "dictionary_item_added", path |-> ChildPath("Dict", IntV(5)),
           t1 |-> notpresent, t2 |-> IntV(5)],
          [report_type |-> "dictionary_item_added", path |-> ChildPath("Dict", IntV(6)),
           t1 |-> notpresent, t2 |-> IntV(6)],
          [report_type |-> "dictionary_item_removed", path |-> ChildPath("Dict", IntV(4)),
           t1 |-> IntV(4), t2 |-> notpresent],
          [report_type |-> "iterable_item_added",
           path |-> <<PathElem("Dict", IntV(3), NoneV), PathElem("SubscriptableIterable", IntV(1), NoneV)>>,
           t1 |-> notpresent, t2 |-> IntV(4)],
          [report_type |-> "values_changed", path |-> ChildPath("Dict", IntV(2)),
           t1 |-> IntV(2), t2 |-> IntV(4)] }

\* C9 as stated: every key of b only gives one dictionary_item_added, every key of a only
\* one dictionary_item_removed, every common key is compared under its path, and the
\* documented mappings give exactly the five documented records.
C9_AsStated ==
    /\ ComparedAsMappings
            => KeysReported(Range(t_keys(t1)), Range(t_keys(t2)),
                            Range(t_keys(t1)) \cap Range(t_keys(t2)))
    /\ (MappingScenario /\ Options.max_diffs = <<>>) => MappingReport

\* C9: of the keys that are not left out as private, every key of b only gives one
\* dictionary_item_added, every key of a only one dictionary_item_removed, and every
\* common key whose value in a is not on the recursion stack is compared under its
\* path; the documented mappings give exactly the five documented records.
C9_Mapping ==
    /\ ComparedAsMappings
            => LET keys1 == Range(KeysOf(Options, t1))
                   keys2 == Range(KeysOf(Options, t2))
               IN KeysReported(keys1, keys2,
                               {key \in keys1 \cap keys2 : id(GetItem(t1, key)) # id(t1)})
    /\ (MappingScenario /\ Options.max_diffs = <<>>) => MappingReport

C9_Witness ==
    /\ MappingScenario
    /\ Options = DefaultOptions
    /\ Reported("dictionary_item_removed", ChildPath("Dict", IntV(4))) = 1
    /\ Reported("dictionary_item_added", ChildPath("Dict", IntV(6))) = 1
    /\ <<PathElem("Dict", IntV(3), NoneV)>> \in Range(ctx.visited)

\* The number of records of the result with a report type for an item.
ReportedItem(report_type, a, b) ==
    Cardinality({n \in DOMAIN Result :
                    /\ Result[n].report_type = report_type
                    /\ Result[n].t1 = a /\ Result[n].t2 = b
                    /\ Result[n].path = ChildPath("Set", NoneV)})

HashesOf(x) == {DeepHash(t_vals(x)[n], Options) : n \in DOMAIN t_vals(x)}

\* C10: of two sets, each content hash of a only gives exactly one set_item_removed, each
\* content hash of b only exactly one set_item_added, and nothing else is reported; the
\* sets {1, 2, 3} and {2, 3, 4} give set_item_removed for 1 and set_item_added for 4.
C10_Sets ==
    (/\ Returned
     /\ instances[run].error = ""
     /\ IsRef(t1) /\ IsRef(t2) /\ t1 # t2
     /\ get_type(t1) = "set" /\ get_type(t2) = "set"
     /\ Options.max_diffs = <<>>)
        => /\ \A h \in HashesOf(t1) \ HashesOf(t2) : ReportedItem("set_item_removed", h, notpresent) = 1
           /\ \A h \in HashesOf(t2) \ HashesOf(t1) : ReportedItem("set_item_added", notpresent, h) = 1
           /\ Len(Result) = Cardinality(HashesOf(t1) \ HashesOf(t2))
                                + Cardinality(HashesOf(t2) \ HashesOf(t1))
           /\ (heap = Library /\ t1 = Ref(5) /\ t2 = Ref(6))
                => Records = { [report_type |-> "set_item_removed", path |-> ChildPath("Set", NoneV),
                                t1 |-> IntV(1), t2 |-> notpresent],
                               [report_type |-> "set_item_added", path |-> ChildPath("Set", NoneV),
                                t1 |-> notpresent, t2 |-> IntV(4)] }

C10_Witness ==
    /\ Returned
    /\ heap = Library /\ t1 = Ref(5) /\ t2 = Ref(6)
    /\ Options = DefaultOptions
    /\ ReportedItem("set_item_removed", IntV(1), notpresent) = 1
    /\ ReportedItem("set_item_added", notpresent, IntV(4)) = 1
    /\ Len(Result) = 2

\* The records of the result of the n-th call.
RecordsOf(n) == {Plain(instances[n].result[m]) : m \in DOMAIN instances[n].result}

\* C2: the call with cache_size 0 and the call with a cache, with or without the sampling
\* of the auto-tuner, on the same inputs and with the same other options, end the same
\* way and give the same set of change records.
C2_CacheTransparent ==
    (Returned /\ run = 2 /\ opts[1].cache_size = 0 /\ opts[2].cache_size > 0)
        => /\ instances[1].error = instances[2].error
           /\ RecordsOf(1) = RecordsOf(2)

\* The number of times a message was logged in the run that ended last.
TimesLogged(ev) == Cardinality({n \in DOMAIN ctx.log : ctx.log[n].ev = ev})

\* The caller has read the statistics of a call that returned an object.
StatsRead == phase = "idle" /\ run > 1 /\ instances[run - 1].error = ""

\* What is said of one limit: its warning is logged at most once, its flag is on from
\* then on, and the statistics the caller reads hold the flag.
LimitDetectable(ev, flag) ==
    /\ TimesLogged(ev) <= 1
    /\ ctx.stats[flag] = (TimesLogged(ev) = 1)
    /\ instances[run - 1].stats[flag] = ctx.stats[flag]
    /\ caller[run - 1].outcome = "stats"
    /\ caller[run - 1].stats[flag] = ctx.stats[flag]

\* C5 as stated: for max_diffs and for max_passes the warning is logged at most once in
\* a call, the flag is on once the limit was hit, and the caller reads the flag in the
\* statistics after the call.
C5_AsStated ==
    StatsRead => /\ LimitDetectable("MAX_DIFFS_REACHED_MSG", "MAX_DIFF_LIMIT_REACHED")
                 /\ LimitDetectable("MAX_PASSES_REACHED_MSG", "MAX_PASS_LIMIT_REACHED")

\* C5: for max_diffs and for max_passes the warning is logged at most once in a call and
\* the flag is on once the limit was hit; the caller reads the flag in the statistics
\* after the call unless cache_purge_level is 2, which leaves the object without them.
C5_LimitFlags ==
    StatsRead =>
        IF opts[run - 1].cache_purge_level # 2
        THEN /\ LimitDetectable("MAX_DIFFS_REACHED_MSG", "MAX_DIFF_LIMIT_REACHED")
             /\ LimitDetectable("MAX_PASSES_REACHED_MSG", "MAX_PASS_LIMIT_REACHED")
        ELSE /\ TimesLogged("MAX_DIFFS_REACHED_MSG") <= 1
             /\ TimesLogged("MAX_PASSES_REACHED_MSG") <= 1
             /\ ctx.stats.MAX_DIFF_LIMIT_REACHED = (TimesLogged("MAX_DIFFS_REACHED_MSG") = 1)
             /\ ctx.stats.MAX_PASS_LIMIT_REACHED = (TimesLogged("MAX_PASSES_REACHED_MSG") = 1)
             /\ caller[run - 1].outcome = "AttributeError"

\* The max_diffs limit was hit again after its warning, and the caller read the flag.
C5_Witness ==
    /\ StatsRead
    /\ opts[run - 1].cache_purge_level # 2
    /\ TimesLogged("MAX_DIFFS_REACHED_MSG") = 1
    /\ TimesLogged("StopIteration") >= 1
    /\ caller[run - 1].outcome = "stats"
    /\ caller[run - 1].stats.MAX_DIFF_LIMIT_REACHED

(***************************************************************************)
(* Configuration errors.                                                   *)
(***************************************************************************)
\* The keyword arguments the specification calls invalid: an unknown argument, a
\* verbosity level other than 0, 1, 2, a cutoff ratio outside [0, 1].
InvalidConfiguration(o) ==
    \/ o.kwargs # {}
    \/ o.verbose_level \notin {0, 1, 2}
    \/ o.cutoff_distance_for_pairs < 0 \/ o.cutoff_distance_for_pairs > Thousand
    \/ o.cutoff_intersection_for_pairs < 0 \/ o.cutoff_intersection_for_pairs > Thousand

\* The call raised from the constructor: nothing was compared, counted or reported.
RejectedAtConstruction ==
    /\ instances[run].error # ""
    /\ instances[run].result = <<>>
    /\ ctx.log = <<>>
    /\ ctx.tree = <<>>
    /\ instances[run].stats.DIFF_COUNT = 0
    /\ instances[run].stats.PASSES_COUNT = 0
    /\ instances[run].stats.DISTANCE_CACHE_HIT_COUNT = 0

\* C11: a call with an invalid verbosity level, a cutoff ratio (cutoff_distance_for_pairs
\* or cutoff_intersection_for_pairs) outside [0, 1] or an unknown argument raises from the
\* constructor, before any comparison: no counter is incremented, no record is produced.
C11_Rejected ==
    Returned /\ InvalidConfiguration(Options) => RejectedAtConstruction

(***************************************************************************)
(* Items that can not be hashed.                                           *)
(***************************************************************************)
\* The two objects are collections of one type that the engine compares by the hashes of
\* their items.
ComparedByHashes ==
    /\ IsRef(t1) /\ IsRef(t2) /\ t1 # t2
    /\ Obj(t1).type = Obj(t2).type
    /\ \/ Obj(t1).type = "set"
       \/ Obj(t1).type = "list" /\ Options.ignore_order

UnhashableItems(x) == {n \in DOMAIN t_vals(x) : HashFailure(t_vals(x)[n]) # ""}
BucketedItems(x) == {t_vals(x)[n] : n \in DOMAIN t_vals(x) \ UnhashableItems(x)}

\* The hash buckets of one side hold the items DeepHash did not fail on, and only them.
Bucketed(x, t) ==
    LET made == _create_hashtable(Options, NewContext(Options), RootLevel(t1, t2), t)
    IN /\ made.c.error = ""
       /\ {made.hashtable[n].item : n \in DOMAIN made.hashtable} = BucketedItems(x)

\* What is said of a collection with items that can not be hashed: the call returns a
\* report, each failure is logged, the items DeepHash failed on are in no bucket and in no
\* record, every other item is bucketed.
HashFailuresRecovered ==
    /\ instances[run].error = ""
    /\ TimesLogged("Can not produce a hash")
            = Cardinality(UnhashableItems(t1)) + Cardinality(UnhashableItems(t2))
    /\ Bucketed(t1, "t1")
    /\ Bucketed(t2, "t2")
    /\ \A n \in DOMAIN Result :
            /\ HashFailure(Result[n].t1) = ""
            /\ HashFailure(Result[n].t2) = ""

\* C12: a failure of DeepHash on an item of a collection, a decode failure included, is
\* never fatal: it is logged, the item is left out of the hash buckets, every other item
\* is bucketed, and the call returns a report.
C12_HashFailureNeverFatal ==
    Returned /\ ComparedByHashes /\ UnhashableItems(t1) \cup UnhashableItems(t2) # {}
        => HashFailuresRecovered

(***************************************************************************)
(* Objects whose fields can not be read.                                   *)
(***************************************************************************)
RECURSIVE ValueAt(_, _)
ValueAt(x, path) ==
    IF path = <<>> THEN x ELSE ValueAt(GetItem(x, Head(path).param), Tail(path))

\* The level at the path compares two different objects whose fields can not be read.
Unprocessable(path) ==
    LET a == ValueAt(t1, path)
        b == ValueAt(t2, path)
    IN /\ IsRef(a) /\ IsRef(b) /\ a # b
       /\ Obj(a).type = "opaque" /\ Obj(b).type = "opaque"

Below(path, top) == Len(path) > Len(top) /\ SubSeq(path, 1, Len(top)) = top

\* C13: when the fields of the two objects of a level can not be read, exactly one record
\* is reported for the level, an unprocessed record; no field of the level is compared
\* (no level below it is visited, no record is reported below it) and the call returns
\* without an error.
C13_Unprocessed ==
    Returned =>
        \A n \in DOMAIN ctx.visited :
            Unprocessable(ctx.visited[n]) =>
                /\ instances[run].error = ""
                /\ Reported("unprocessed", ctx.visited[n]) = 1
                /\ \A m \in DOMAIN Result :
                        /\ Result[m].path = ctx.visited[n] => Result[m].report_type = "unprocessed"
                        /\ ~Below(Result[m].path, ctx.visited[n])
                /\ \A m \in DOMAIN ctx.visited : ~Below(ctx.visited[m], ctx.visited[n])

\* Two lists with the order significant whose second items are objects, with different
\* fields, that can not be read: the one record of that level is an unprocessed record.
C13_Witness ==
    /\ Returned
    /\ ~Options.ignore_order
    /\ t1 = Ref(13) /\ t2 = Ref(14)
    /\ Unprocessable(ChildPath("SubscriptableIterable", IntV(1)))
    /\ ChildPath("SubscriptableIterable", IntV(1)) \in Range(ctx.visited)
    /\ GetItem(Ref(11), StrV(1)) # GetItem(Ref(12), StrV(1))
    /\ Reported("unprocessed", ChildPath("SubscriptableIterable", IntV(1))) = 1
    /\ Len(Result) = 2

(***************************************************************************)
(* Custom operators.                                                       *)
(***************************************************************************)
\* The operator registered n-th accepts the level at the path.
Accepts(path, n) == get_type(ValueAt(t1, path)) \in Options.custom_operators[n].match

\* The operators that accept the level at the path and suppress the default handling.
Suppressors(path) ==
    {n \in DOMAIN Options.custom_operators :
        Accepts(path, n) /\ Options.custom_operators[n].prevent_default}

\* The last operator consulted for the level: the first that suppresses the default
\* handling, the last registered when none does.
LastConsulted(path) ==
    IF Suppressors(path) = {} THEN Len(Options.custom_operators)
    ELSE CHOOSE n \in Suppressors(path) : \A m \in Suppressors(path) : n <= m

\* The calls of the operators for one level, from the n-th operator on: each operator
\* up to the last consulted is asked whether it matches, in registration order, and
\* performs its comparison when it does.
RECURSIVE OperatorCalls(_, _)
OperatorCalls(path, n) ==
    IF n > LastConsulted(path) THEN <<>>
    ELSE <<Event("match", n)>>
            \o (IF Accepts(path, n) THEN <<Event("give_up_diffing", n)>> ELSE <<>>)
            \o OperatorCalls(path, n + 1)

\* The calls of the operators for the levels visited, from the k-th visited level on.
RECURSIVE OperatorCallsOfLevels(_)
OperatorCallsOfLevels(k) ==
    IF k > Len(ctx.visited) THEN <<>>
    ELSE OperatorCalls(ctx.visited[k], 1) \o OperatorCallsOfLevels(k + 1)

IsOperatorCall(e) == e.ev \in {"match", "give_up_diffing"}

UsesAligner ==
    /\ Returned
    /\ instances[run].error = ""
    /\ FlatList(t1) /\ FlatList(t2) /\ t1 # t2
    /\ ~Options.ignore_order
    /\ ~Options.zip_ordered_iterables
    /\ Options.iterable_compare_func = "None"
    /\ Options.max_diffs = <<>>
    /\ Options.custom_operators = <<>>
    /\ ~_skip_this(Options, RootLevel(t1, t2))

PlainRecords(tree) == [n \in DOMAIN tree |-> Plain(tree[n])]

\* The records of the comparison by difflib of the two lists, and of their pairwise
\* comparison by position, each one on its own.
AlignedRecords ==
    PlainRecords(_diff_ordered_iterable_by_difflib(
                    Options, NewContext(Options), RootLevel(t1, t2), TRUE, {},
                    "SubscriptableIterable").local_tree)
PairwiseRecords ==
    PlainRecords(_diff_by_forming_pairs_and_comparing_one_by_one(
                    Options, NewContext(Options), RootLevel(t1, t2), TRUE, {},
                    "SubscriptableIterable", NoIndexes).local_tree)

\* C15, as stated: of the result of difflib and the result of the pairwise comparison
\* of the whole sequences the engine keeps the one with fewer records, and the result
\* of difflib when both have as many.
C15_AsStated ==
    UsesAligner =>
        PlainRecords(Result) = IF Len(PairwiseRecords) < Len(AlignedRecords)
                               THEN PairwiseRecords
                               ELSE AlignedRecords

\* C15: the engine keeps the result of difflib when it has at most one record (the
\* pairwise comparison of the whole sequences is then not run) or fewer records than
\* the pairwise result; otherwise, also when both have as many, it keeps the pairwise
\* result.
C15_FewerRecords ==
    UsesAligner =>
        PlainRecords(Result) = IF Len(AlignedRecords) > 1
                                    /\ Len(PairwiseRecords) <= Len(AlignedRecords)
                               THEN PairwiseRecords
                               ELSE AlignedRecords

\* Both results have as many records, more than one, and differ: the records returned
\* are the pairwise ones.
C15_Witness ==
    /\ UsesAligner
    /\ Len(AlignedRecords) > 1
    /\ Len(PairwiseRecords) = Len(AlignedRecords)
    /\ AlignedRecords # PairwiseRecords
    /\ PlainRecords(Result) = PairwiseRecords

\* C16: whenever two sequences are compared by difflib, the full list of opcodes, the
\* equal runs included, is recorded under the path of the pair, whatever the number of
\* records.
C16_OpcodesRecorded ==
    UsesAligner =>
        [path |-> <<>>, opcodes |-> get_opcodes(t_vals(t1), t_vals(t2))]
            \in ctx.iterable_opcodes

(***************************************************************************)
(* The pairing of the added and the removed items.                         *)
(***************************************************************************)
\* The pairing as it is described: within a tier an added hash not yet matched takes
\* the first removed hash of the tier not yet matched, and keeps it.
RECURSIVE FirstWinsTo(_, _, _, _)
FirstWinsTo(from_hash, to_hashes, n, acc) ==
    IF n > Len(to_hashes) THEN acc
    ELSE IF to_hashes[n] \notin acc.matched
    THEN [matched |-> acc.matched \cup {from_hash, to_hashes[n]},
          pairs |-> acc.pairs \cup {PairOf(from_hash, to_hashes[n])}]
    ELSE FirstWinsTo(from_hash, to_hashes, n + 1, acc)

RECURSIVE FirstWinsFrom(_, _, _, _, _)
FirstWinsFrom(found, from_hashes, dist, n, acc) ==
    IF n > Len(from_hashes) THEN acc
    ELSE FirstWinsFrom(found, from_hashes, dist, n + 1,
            IF from_hashes[n] \notin acc.matched
            THEN FirstWinsTo(from_hashes[n], ToHashes(found, from_hashes[n], dist), 1, acc)
            ELSE acc)

\* ... tier by tier, by ascending distance.
RECURSIVE FirstWinsTiers(_, _, _, _, _)
FirstWinsTiers(found, hashes_added, dists, n, acc) ==
    IF n > Len(dists) THEN acc
    ELSE FirstWinsTiers(found, hashes_added, dists, n + 1,
            FirstWinsFrom(found, FromHashes(found, hashes_added, dists[n]), dists[n], 1, acc))

FirstWinsPairs(found, hashes_added) ==
    LET taken == FirstWinsTiers(found, hashes_added,
                                SortedInts({found[n].dist : n \in DOMAIN found}), 1,
                                [matched |-> {}, pairs |-> {}])
    IN taken.pairs \cup {PairOf(e.to, e.from) : e \in taken.pairs}

\* C17: the pairing table is built greedily tier by tier in ascending order of distance;
\* within a tier an added hash not yet matched is paired with the first removed hash
\* encountered that is not yet matched, and a later candidate of the tier does not
\* replace it.
C17_FirstEncounteredWins ==
    \A n \in DOMAIN ctx.pairings :
        ~ctx.pairings[n].hit =>
            ctx.pairings[n].pairs
                = FirstWinsPairs(ctx.pairings[n].found, ctx.pairings[n].hashes_added)

\* The table is symmetric and one-to-one, and each of its pairs joins an added hash
\* with a removed hash.
IsMatching(pairing) ==
    /\ \A p \in pairing.pairs : PairOf(p.to, p.from) \in pairing.pairs
    /\ \A p, q \in pairing.pairs : p.from = q.from => p.to = q.to
    /\ \A p \in pairing.pairs :
            \/ p.from \in Range(pairing.hashes_added) /\ p.to \in Range(pairing.hashes_removed)
            \/ p.from \in Range(pairing.hashes_removed) /\ p.to \in Range(pairing.hashes_added)

\* Every pair of the table was measured at a distance below the cutoff.
BelowCutoff(pairing) ==
    \A p \in pairing.pairs :
        \E k \in DOMAIN pairing.found :
            /\ {pairing.found[k].added, pairing.found[k].removed} = {p.from, p.to}
            /\ pairing.found[k].dist < Options.cutoff_distance_for_pairs

\* C18: every pairing table is a symmetric one-to-one matching (pairs[x] = y exactly when
\* pairs[y] = x), each pair joins one added hash with one removed hash, and every pair
\* has a rough distance strictly below cutoff_distance_for_pairs; a table taken from the
\* cache is a table built earlier in the call for the same hashes.
C18_Matching ==
    Returned => \A n \in DOMAIN ctx.pairings :
        /\ IsMatching(ctx.pairings[n])
        /\ IF ctx.pairings[n].hit
           THEN \E m \in 1..(n - 1) :
                    /\ ~ctx.pairings[m].hit
                    /\ ctx.pairings[m].hashes_added = ctx.pairings[n].hashes_added
                    /\ ctx.pairings[m].hashes_removed = ctx.pairings[n].hashes_removed
                    /\ ctx.pairings[m].pairs = ctx.pairings[n].pairs
           ELSE BelowCutoff(ctx.pairings[n])

\* A table that pairs two added hashes with two removed hashes, when some added hash and
\* some removed hash were measured at a distance at or above the cutoff.
C18_Witness ==
    /\ Returned
    /\ \E n \in DOMAIN ctx.pairings :
            /\ ~ctx.pairings[n].hit
            /\ Cardinality(ctx.pairings[n].pairs) = 4
            /\ Len(ctx.pairings[n].hashes_added) = 2
            /\ Len(ctx.pairings[n].hashes_removed) = 2
            /\ Len(ctx.pairings[n].found) < 4
            /\ IsMatching(ctx.pairings[n])
            /\ BelowCutoff(ctx.pairings[n])

(***************************************************************************)
(* The records of the added and the removed items with the order ignored.  *)
(***************************************************************************)
\* The call compared two different lists by the hashes of their items and returned.
ComparedIgnoringOrder ==
    /\ Returned
    /\ instances[run].error = ""
    /\ IsRef(t1) /\ IsRef(t2) /\ t1 # t2
    /\ get_type(t1) = "list" /\ get_type(t2) = "list"
    /\ Options.ignore_order
    /\ Options.max_diffs = <<>>

\* The indexes in x of the items with the hash h: all of them when the repetitions are
\* reported, the first one otherwise.
IndexesOf(x, h) == {n - 1 : n \in {m \in DOMAIN t_vals(x) : DeepHash(t_vals(x)[m], Options) = h}}
ReportedIndexes(x, h) ==
    IF Options.report_repetition THEN IndexesOf(x, h)
    ELSE {CHOOSE i \in IndexesOf(x, h) : \A j \in IndexesOf(x, h) : i <= j}
ItemPath(i) == ChildPath("SubscriptableIterable", IntV(i))

\* The pairing table of the two lists of the call: empty when none was built.
RootPairs ==
    UNION {ctx.pairings[n].pairs : n \in {m \in DOMAIN ctx.pairings : ctx.pairings[m].depth = 1}}

\* The records of the items of the two lists with the hash h: as added, as removed.
AddedRecords(h) ==
    {n \in DOMAIN Result : /\ Result[n].report_type = "iterable_item_added"
                           /\ Len(Result[n].path) = 1
                           /\ DeepHash(Result[n].t2, Options) = h}
RemovedRecords(h) ==
    {n \in DOMAIN Result : /\ Result[n].report_type = "iterable_item_removed"
                           /\ Len(Result[n].path) = 1
                           /\ DeepHash(Result[n].t1, Options) = h}

RepetitionChanged(h) ==
    /\ h \in HashesOf(t1) \cap HashesOf(t2)
    /\ Cardinality(IndexesOf(t1, h)) # Cardinality(IndexesOf(t2, h))

\* What is said of such a hash: one repetition record, at the first index of the hash in
\* t1, with the two counts and the two lists of indexes, and no record of an added or of
\* a removed item.
RepetitionReported(h) ==
    /\ Cardinality({n \in DOMAIN Result :
            /\ Result[n].report_type = "repetition_change"
            /\ Result[n].path = ItemPath(SortedInts(IndexesOf(t1, h))[1])
            /\ DeepHash(Result[n].t1, Options) = h
            /\ DeepHash(Result[n].t2, Options) = h
            /\ Result[n].additional =
                    [old_repeat |-> Cardinality(IndexesOf(t1, h)),
                     new_repeat |-> Cardinality(IndexesOf(t2, h)),
                     old_indexes |-> SortedInts(IndexesOf(t1, h)),
                     new_indexes |-> SortedInts(IndexesOf(t2, h))]}) = 1
    /\ Cardinality({n \in DOMAIN Result :
            /\ Result[n].report_type = "repetition_change"
            /\ Len(Result[n].path) = 1
            /\ DeepHash(Result[n].t1, Options) = h}) = 1
    /\ AddedRecords(h) = {}
    /\ RemovedRecords(h) = {}

\* C20, as stated: when a hash is the hash of items of both lists, of a different number
\* of items, one repetition record with the old and the new count and the two lists of
\* indexes is reported for it, and no record of an added or removed item.
C20_AsStated ==
    ComparedIgnoringOrder => \A h \in HashesOf(t1) : RepetitionChanged(h) => RepetitionReported(h)

\* C20: ... when the repetitions are reported (report_repetition); when they are not,
\* nothing is reported for such a hash.
C20_Repetition ==
    ComparedIgnoringOrder =>
        \A h \in HashesOf(t1) :
            RepetitionChanged(h) =>
                IF Options.report_repetition THEN RepetitionReported(h)
                ELSE \A n \in DOMAIN Result :
                        Len(Result[n].path) = 1 =>
                            /\ DeepHash(Result[n].t1, Options) # h
                            /\ DeepHash(Result[n].t2, Options) # h

\* [1, 1, 2] and [1, 2, 2, 3] with the repetitions reported: 1 went from two items to
\* one, 2 from one item to two, and 3 is reported as added.
C20_Witness ==
    /\ ComparedIgnoringOrder
    /\ Options.report_repetition
    /\ t1 = Ref(11) /\ t2 = Ref(12)
    /\ RepetitionChanged(IntV(1)) /\ RepetitionReported(IntV(1))
    /\ RepetitionChanged(IntV(2)) /\ RepetitionReported(IntV(2))
    /\ Cardinality(AddedRecords(IntV(3))) = 1
    /\ Len(Result) = 3

(***************************************************************************)
(* The cache tuner, read from the log of a run that had a cache and a      *)
(* sampling stride.                                                        *)
(***************************************************************************)
Tuned == Returned /\ Options.cache_size # 0 /\ Options.cache_tuning_sample_size # 0

\* The switches of the cache before the event i of the log, and the state they leave.
Toggles(i) == {j \in 1..(i - 1) : ctx.log[j].ev \in {"cache_on", "cache_off"}}
CacheEnabledAt(i) ==
    IF Toggles(i) = {} THEN TRUE
    ELSE ctx.log[CHOOSE j \in Toggles(i) : \A k \in Toggles(i) : k <= j].ev = "cache_on"

\* The event i counts a diff operation at which a sample is taken.
IsSample(i) ==
    /\ ctx.log[i].ev = "count"
    /\ ctx.log[i].n % Options.cache_tuning_sample_size = 0
\* The events after the sample before the event i, up to i.
SinceLastSample(i) ==
    {j \in 1..i : \A k \in j..(i - 1) : ~IsSample(k)}
HitsSince(i) == Cardinality({j \in SinceLastSample(i) : ctx.log[j].ev = "cache_hit"})
DiffsSince(i) == Cardinality({j \in SinceLastSample(i) : ctx.log[j].ev = "count"})
FollowedBy(i, ev) == i < Len(ctx.log) /\ ctx.log[i + 1].ev = ev
CacheUses == {"cache_hit", "cache_miss", "cache_set", "pairs_hit", "pairs_miss", "pairs_set"}

\* C21: with a cache and a sampling stride N, the slope (hits gained / diffs counted since
\* the last sample) is evaluated exactly at the diff counts that are multiples of N while
\* the cache is enabled; when it is below 0.25 the cache is disabled; and while the cache
\* is disabled it is neither looked up nor stored into, for distances and pairing tables.
C21_AutoOff ==
    Tuned =>
        /\ ctx.stats.DISTANCE_CACHE_ENABLED = CacheEnabledAt(Len(ctx.log) + 1)
        /\ \A i \in DOMAIN ctx.log :
            /\ ctx.log[i].ev = "count" =>
                    ((IsSample(i) /\ CacheEnabledAt(i)) <=> FollowedBy(i, "slope"))
            /\ ctx.log[i].ev = "slope" =>
                    /\ i > 1 /\ ctx.log[i - 1].ev = "count"
                    /\ HitsSince(i - 1) * CacheThresholdInverse < DiffsSince(i - 1)
                            => FollowedBy(i, "cache_off")
            /\ ctx.log[i].ev \in CacheUses => CacheEnabledAt(i)

\* A run in which one evaluation of the slope leaves the cache enabled, a later one
\* disables it, and a multiple of N is counted while it is disabled.
C21_Witness ==
    /\ Tuned
    /\ \E j \in DOMAIN ctx.log :
        /\ ctx.log[j].ev = "slope" /\ FollowedBy(j, "cache_off")
        /\ \E i \in 1..(j - 1) : ctx.log[i].ev = "slope" /\ ~FollowedBy(i, "cache_off")
        /\ \E l \in (j + 1)..Len(ctx.log) : IsSample(l) /\ ~CacheEnabledAt(l)

\* The re-enable interval before the event i of the log: 10 times the sampling stride,
\* times 10 for every re-enable so far.
RECURSIVE TenTo(_)
TenTo(k) == IF k = 0 THEN 1 ELSE 10 * TenTo(k - 1)
Reenables(i) == {j \in 1..(i - 1) : ctx.log[j].ev = "cache_on"}
ReenableInterval(i) == 10 * Options.cache_tuning_sample_size * TenTo(Cardinality(Reenables(i)))

\* C22: once the cache is disabled, the diff counted at the next multiple of the re-enable
\* interval re-enables it (so it is re-enabled if diffs keep being counted), and it is
\* re-enabled at no other count; the interval starts at 10 times the sampling stride and
\* is multiplied by 10 at every re-enable, in nested instances as well; the slope is not
\* evaluated and the cache is not disabled in the counting step that re-enabled it.
C22_Reenable ==
    Tuned =>
        /\ ctx.enable_cache_every_x_diff = ReenableInterval(Len(ctx.log) + 1)
        /\ \A i \in DOMAIN ctx.log :
            /\ ctx.log[i].ev = "count" =>
                    ((~CacheEnabledAt(i) /\ ctx.log[i].n % ReenableInterval(i) = 0)
                        <=> FollowedBy(i, "cache_on"))
            /\ ctx.log[i].ev = "cache_on" =>
                    /\ i > 1 /\ ctx.log[i - 1] = Event("count", ctx.log[i].n)
                    /\ ~FollowedBy(i, "slope")
                    /\ ~FollowedBy(i, "cache_off")

\* With the stride 1 the cache is disabled at the first diff, re-enabled at the 10th,
\* disabled again and re-enabled at the 100th; the next interval is 1000.
C22_Witness ==
    /\ Tuned
    /\ Options.cache_tuning_sample_size = 1
    /\ ctx.enable_cache_every_x_diff = 1000
    /\ \E i, j \in DOMAIN ctx.log :
        /\ ctx.log[i] = Event("cache_on", 10)
        /\ ctx.log[j] = Event("cache_on", 100)
        /\ \E k \in (i + 1)..(j - 1) : ctx.log[k].ev = "cache_off"

\* C30: the slope is never evaluated over zero diffs: at every evaluation the number of
\* diffs counted since the previous sample is the sampling stride, whatever the root and
\* the nested instances counted, disabled and re-enabled before it; the division never
\* fails.
C30_SlopeDefined ==
    Tuned =>
        /\ ctx.error # "ZeroDivisionError"
        /\ \A i \in DOMAIN ctx.log :
            ctx.log[i].ev = "slope" =>
                /\ ctx.log[i].n = Options.cache_tuning_sample_size
                /\ ctx.log[i].n > 0
                /\ DiffsSince(i - 1) = ctx.log[i].n

\* A stride above 1: the slope is evaluated, the cache is disabled and re-enabled, and the
\* slope is evaluated again over the stride.
C30_Witness ==
    /\ Tuned
    /\ Options.cache_tuning_sample_size > 1
    /\ \E k \in DOMAIN ctx.log :
        /\ ctx.log[k].ev = "cache_on"
        /\ \E i \in 1..(k - 1) : ctx.log[i].ev = "slope"
        /\ \E i \in (k + 1)..Len(ctx.log) :
                ctx.log[i] = Event("slope", Options.cache_tuning_sample_size)

\* C23: when max_diffs is given, the number of diffs counted in the statistics, the diffs
\* of the nested instances included, is at most max_diffs.
C23_WithinMaxDiffs ==
    (Returned /\ Options.max_diffs # <<>>) => ctx.stats.DIFF_COUNT <= Options.max_diffs[1]

(***************************************************************************)
(* The state the root shares with its nested instances.                    *)
(***************************************************************************)
Running == phase \in {"compared", "returned"}
\* The event i of the log is logged inside a nested instance.
InNested(i) ==
    Cardinality({j \in 1..(i - 1) : ctx.log[j].ev = "nested"})
        > Cardinality({j \in 1..(i - 1) : ctx.log[j].ev = "nested_done"})
\* The n of the event i is the number of the events ev up to it.
Numbered(i, ev) == ctx.log[i].n = Cardinality({j \in 1..i : ctx.log[j].ev = ev})
Stored == TimesLogged("cache_set") + TimesLogged("pairs_set")

\* C24: the statistics, the distance cache and the table of hashes are shared by the root
\* and its nested instances: every diff, pass and cache hit counted in a nested instance
\* is counted in the counters of the root, no counter or flag is reset and nothing is
\* counted after the diff limit was hit, in whatever instance; when a nested instance is
\* done the cache and the table of hashes keep what was stored; they are torn down when
\* the root is done (with a cache_purge_level other than 0).
C24_SharedState ==
    Running =>
        /\ ctx.stats.DIFF_COUNT = TimesLogged("count")
        /\ ctx.stats.PASSES_COUNT = TimesLogged("pass")
        /\ ctx.stats.DISTANCE_CACHE_HIT_COUNT = TimesLogged("cache_hit")
        /\ ctx.stats.PASSES_COUNT <= Options.max_passes
        /\ ctx.stats.MAX_DIFF_LIMIT_REACHED = (TimesLogged("MAX_DIFFS_REACHED_MSG") > 0)
        /\ ctx.stats.MAX_PASS_LIMIT_REACHED = (TimesLogged("MAX_PASSES_REACHED_MSG") > 0)
        /\ \A i \in DOMAIN ctx.log :
            /\ ctx.log[i].ev = "count" => Numbered(i, "count")
            /\ ctx.log[i].ev = "MAX_DIFFS_REACHED_MSG" =>
                    \A j \in (i + 1)..Len(ctx.log) : ctx.log[j].ev # "count"
        /\ IF phase = "compared" \/ Options.cache_purge_level = 0
           THEN /\ Stored > 0 => ctx.distance_cache # <<>>
                /\ \A n \in DOMAIN ctx.pairings :
                    \A h \in Range(ctx.pairings[n].hashes_added)
                                \cup Range(ctx.pairings[n].hashes_removed) :
                        \E x \in ctx.hashes : DeepHash(x, Options) = h
           ELSE ctx.distance_cache = <<>> /\ ctx.hashes = {}

\* The root is about to finish: a nested instance counted a diff, a pass and a cache hit
\* and stored a distance, the root counted diffs after it was done, and the cache and
\* the table of hashes hold what the nested instances left.
C24_Witness ==
    /\ phase = "compared"
    /\ \E i \in DOMAIN ctx.log :
        /\ ctx.log[i].ev = "nested_done"
        /\ \E j \in (i + 1)..Len(ctx.log) : ctx.log[j].ev = "count" /\ ~InNested(j)
    /\ \E i \in DOMAIN ctx.log : ctx.log[i].ev = "count" /\ InNested(i)
    /\ \E i \in DOMAIN ctx.log : ctx.log[i].ev = "pass" /\ InNested(i)
    /\ \E i \in DOMAIN ctx.log : ctx.log[i].ev = "cache_hit" /\ InNested(i)
    /\ \E i \in DOMAIN ctx.log : ctx.log[i].ev = "cache_set" /\ InNested(i)
    /\ ctx.distance_cache # <<>>
    /\ \E n \in DOMAIN ctx.pairings : ctx.pairings[n].depth > 1

\* A nested instance whose t1 is the cell a is at work before the event i of the log.
UnderComparison(i, a) ==
    Cardinality({j \in 1..(i - 1) : ctx.log[j] = Event("nested", a)})
        > Cardinality({j \in 1..(i - 1) : ctx.log[j] = Event("nested_done", a)})

\* C25: with the order ignored, no nested instance is given a t1 that the root or a nested
\* instance that called it is comparing, and the comparison of lists that contain
\* themselves ends without running out of stack, whatever the budgets.
C25_NestedCycleGuard ==
    (Running /\ Options.ignore_order) =>
        /\ ctx.error # "RecursionError"
        /\ \A i \in DOMAIN ctx.log :
            (ctx.log[i].ev = "nested" /\ ctx.log[i].n # 0) =>
                /\ ctx.log[i].n # t1.v
                /\ ~UnderComparison(i, ctx.log[i].n)

\* The hash h has no pair in the table.
Unpaired(pairing, h) == \A p \in pairing.pairs : p.from # h /\ p.to # h

\* C26: when the greedy pairing is done no candidate is left over: there is no added hash
\* and removed hash measured at a distance below the cutoff that are both without a pair.
C26_Maximal ==
    Returned =>
        \A n \in DOMAIN ctx.pairings :
            \A k \in DOMAIN ctx.pairings[n].found :
                ctx.pairings[n].found[k].dist < Options.cutoff_distance_for_pairs =>
                    ~(/\ Unpaired(ctx.pairings[n], ctx.pairings[n].found[k].added)
                      /\ Unpaired(ctx.pairings[n], ctx.pairings[n].found[k].removed))

\* The list of matches _get_matching_pairs builds for the two lists of the call.
RootMatches == _get_matching_pairs(Options, RootLevel(t1, t2), -1, -1, -1, -1)
EntriesOfT1(i) == {n \in DOMAIN RootMatches : RootMatches[n].i = i}
EntriesOfT2(j) == {n \in DOMAIN RootMatches : RootMatches[n].j = j}

\* C27: with a custom matching function, every index of t1 is in exactly one entry of the
\* list of matches (matched or removed) and every index of t2 is in exactly one entry
\* (matched or added), also when t2 holds several items of one content hash.
C27_MatchesCoverBothSides ==
    (ComparedAsIterables /\ Options.iterable_compare_func # "None") =>
        /\ \A i \in 0..(Len(t_vals(t1)) - 1) : Cardinality(EntriesOfT1(i)) = 1
        /\ \A j \in 0..(Len(t_vals(t2)) - 1) : Cardinality(EntriesOfT2(j)) = 1

\* The path is at or below a path of the set.
Under(path, paths) == \E p \in paths : IsPrefix(p, path)

\* C28: exclusion goes before inclusion: a level whose path is in exclude_paths is skipped
\* (nothing is reported at or below it and no level below it is compared), whatever
\* include_paths holds, and nothing is reported for a level whose t1 or t2 is of an
\* excluded type, with include_paths as well.
C28_ExclusionFirst ==
    (Returned /\ instances[run].error = "") =>
        /\ \A n \in DOMAIN Result : ~Under(Result[n].path, Options.exclude_paths)
        /\ \A n \in DOMAIN ctx.visited :
                \A p \in Options.exclude_paths :
                    IsPrefix(p, ctx.visited[n]) => ctx.visited[n] = p
        /\ \A n \in DOMAIN Result :
                /\ ~isinstance_of(Result[n].t1, Options.exclude_types)
                /\ ~isinstance_of(Result[n].t2, Options.exclude_types)

\* C29: with order significant and the default options, two ordered sequences of scalars
\* give an empty report only if they have the same length and, at every index, the two
\* items have the same type and the same value.
C29_SequenceAgreesWithScalars ==
    (/\ Returned
     /\ instances[run].error = ""
     /\ Options = DefaultOptions
     /\ FlatList(t1) /\ FlatList(t2)
     /\ Len(Result) = 0)
        => /\ Len(t_vals(t1)) = Len(t_vals(t2))
           /\ \A n \in DOMAIN t_vals(t1) :
                /\ get_type(t_vals(t1)[n]) = get_type(t_vals(t2)[n])
                /\ t_vals(t1)[n] = t_vals(t2)[n]

====
